---- MODULE Spec2Model ----
(***************************************************************************)
(* A model of the relational entity store of graph-node                    *)
(* (store/postgres/src/relational.rs): the block-range versioning protocol *)
(* of Layout (insert / update / delete / revert_block / find / find_range) *)
(* and the LayoutCache.                                                    *)
(***************************************************************************)
EXTENDS Integers, Sequences, FiniteSets, TLC

(***************************************************************************)
(* Bounds of the model                                                     *)
(***************************************************************************)
MaxBlock == 3
MaxVid == 3
MaxTime == 3
MaxRollupTime == 8
MaxPairs == 2
MaxRollups == 2
MaxNameLen == 3
MaxLoaded == 2
MaxChangeBlock == 2
MaxDbRows == 2
MaxChunks == 2
MaxCalls == 6
MaxLockCalls == 1
MaxLayouts == 3
MaxStream == 2
MaxClampBlocks == 2
MaxSteps == 2
TTL == 1
MAXLEN == 20480
NOT_SYNCED == 0
SYNCED == 1
DELETE_OPERATION_CHUNK_SIZE == 1000

(***************************************************************************)
(* Small domains                                                           *)
(***************************************************************************)
Ids == {1, 2}
\* Entity data is opaque to the layout: one token per write
Vals == 1..MaxVid
Tables == {"Imm", "Mut"}
TableSeq == <<"Imm", "Mut">>
Blocks == 1..MaxBlock

\* Option<T>
None == <<>>
Some(x) == <<x>>

\* Table.immutable
immutable(t) == t = "Imm"

\* Ord for EntityType (names compared as strings)
TypeRank(t) == IF t = "Imm" THEN 1 ELSE 2

VARIABLES
    rows,       \* the versions stored in the tables of the layout
    nextVid,    \* the vid sequence of the database
    head,       \* the highest block that has been written
    snap,       \* history: the rows as they were before the first write at a block
    entries,    \* LayoutCache.entries: the cache entry of each deployment, if any
    entriesLock,    \* the thread that holds the mutex of entries, if any
    refreshLock,    \* the thread that holds LayoutCache.refresh, if any
    last_sweep,     \* LayoutCache.last_sweep
    lastSweepLock,  \* the thread that holds the mutex of last_sweep, if any
    clock,      \* Instant::now()
    ttl,        \* LayoutCache.ttl
    th,         \* the position and the locals of each thread in LayoutCache::get
    rollups,        \* Layout.rollups: the interval of each rollup, in list order
    block_times,    \* rollup: the argument block_times
    last0,          \* rollup: the argument last_rollup
    last_rollup,    \* rollup: the local last_rollup
    ri,             \* rollup: the position of the outer loop in block_times
    rj,             \* rollup: the position of the inner loop in rollups
    rollup_inserts, \* the calls of Rollup::insert made so far, in order
    rpc,            \* the position of the call of rollup
    copy_dst,       \* can_copy_from: self, the destination table
    copy_src,       \* can_copy_from: source
    copy_result,  \* can_copy_from: the value returned, if it has been called
    ident_name,     \* check_valid_identifier: the argument name, if it has been called
    ident_result,  \* check_valid_identifier: the value returned, if it has been called
    fm_ids_for_type,    \* find_many: the argument ids_for_type, if it has been called
    fm_loaded,      \* find_many: the rows that query.load returned, if it ran
    fm_result,  \* find_many: the value returned, if it has been called
    fc_db,          \* find_changes: the versions in the database, by vid
    fc_block,       \* find_changes: the argument block, if it has been called
    fc_changes,  \* find_changes: the list returned, if it has been called
    ci_pc,          \* insert: the position of the call
    ci_table,       \* insert: the table of the group
    ci_chunks,      \* insert: the chunks of the group
    ci_k,           \* insert: the chunk the loop is at
    ci_written,     \* insert: the rows written to the table by the call so far
    ci_executed,    \* insert: the chunks whose statement has been executed
    ci_result,  \* insert: the value returned, if it has returned
    q_text_len,     \* query: the length of the text of the statement, if it has been called
    q_outcome,      \* query: what the call ran into, if it has been called
    q_result,       \* query: the value returned, if it has been called
    q_logged,       \* query: the length of the text logged by log_query_timing, if any
    q_trace,        \* query: the argument query.trace, if it has been called
    q_log_sql_timing,  \* ENV_VARS.log_sql_timing()
    metric_inner,   \* DeploymentSyncedMetric.inner: the value of the gauge
    previously_synced,  \* DeploymentSyncedMetric.previously_synced
    metric_calls,  \* history: the arguments of the calls of record so far
    lock1,          \* the session that holds advisory lock 1, if any
    lock2,          \* the session that holds advisory lock 2, if any
    lock2_queue,    \* the sessions that wait for advisory lock 2, in order of arrival
    lk_pc,          \* the position of each session in lock_migration / unlock_migration
    lk_try,         \* what pg_try_advisory_lock(1) gave each session in its statement
    lk_migrate,     \* what lock_migration last returned to each session, if it has
    lk_calls,  \* the number of calls of lock_migration of each session
    table_heap,     \* the Table objects that exist, by reference
    layout_heap,    \* the Layout objects that exist, by reference
    rf_self,        \* refresh: the reference self of the last call, if any
    rf_site,        \* refresh: the argument site of the last call, if any
    rf_answer,      \* refresh: what the database answered in the last call, if any
    rf_result,  \* refresh: the value the last call returned, if any
    mg_pc,          \* find_range: the position of the merge
    mg_lower_vec,      \* find_range: the stream of lower bounds
    mg_upper_vec,      \* find_range: the stream of upper bounds
    lower_now,      \* find_range: the position of lower_now in mg_lower_vec
    upper_now,      \* find_range: the position of upper_now in mg_upper_vec
    mg_out,         \* find_range: the operations reported so far, in order
    mg_steps,  \* history: the turns of the loop taken so far
    us_pc,          \* update: the position of the call
    us_table,       \* update: the table of the group, if it has been called
    us_clamps,      \* update: the blocks of group.clamps_by_block()
    us_chunks,      \* update: the sizes of the chunks of group.write_chunks()
    us_k,           \* update: the position of the loop the call is in
    us_count,       \* update: the local count
    us_trace,       \* history: the statements the call has issued, in order
    us_result,  \* update: the value returned, if it has returned
    dl_pc,          \* delete: the position of the call
    dl_table,       \* delete: the table of the group, if it has been called
    dl_clamps,      \* delete: group.clamps_by_block(): each block with the number of its ids
    dl_b,           \* delete: the position of the outer loop in dl_clamps
    dl_c,           \* delete: the position of the inner loop in the chunks of the block
    dl_count,       \* delete: the local count
    dl_trace,       \* history: the statements the call has executed and the rows each clamped
    dl_result,  \* delete: the value returned, if it has returned
    pl_pc,          \* Pipeline::run: the position of the call
    pl_steps,       \* Pipeline.steps: the number of steps
    pl_i,           \* Pipeline::run: the step the for loop is at
    next_input,     \* Pipeline::run: the local next_input, if it holds a value
    pl_calls,       \* history: the calls since the last tick, the tick included
    pl_tick,        \* history: flips with every call of source.tick()
    pl_result,  \* Pipeline::run: the value returned, if it has returned
    ops_removed,    \* history: per deployment, the gets in flight at its last removal, if it counts
    ops_found,  \* find: whether the last call returned a layout, if there was a call
    rec_pc,  \* record: where each thread is in its call
    rec_synced,  \* record: the argument of each thread's call
    rec_calls  \* record: the calls made so far

storeVars == <<rows, nextVid, head, snap>>

cacheVars == <<entries, entriesLock, refreshLock, last_sweep, lastSweepLock, clock, ttl, th>>

rollupVars == <<rollups, block_times, last0, last_rollup, ri, rj, rollup_inserts, rpc>>

copyVars == <<copy_dst, copy_src, copy_result>>

identVars == <<ident_name, ident_result>>

findManyVars == <<fm_ids_for_type, fm_loaded, fm_result>>

findChangesVars == <<fc_db, fc_block, fc_changes>>

insertChunksVars == <<ci_pc, ci_table, ci_chunks, ci_k, ci_written, ci_executed, ci_result>>

queryVars == <<q_text_len, q_outcome, q_result, q_logged, q_trace, q_log_sql_timing>>

metricVars == <<metric_inner, previously_synced, metric_calls>>

lockVars == <<lock1, lock2, lock2_queue, lk_pc, lk_try, lk_migrate, lk_calls>>

refreshVars == <<table_heap, layout_heap, rf_self, rf_site, rf_answer, rf_result>>

mergeVars == <<mg_pc, mg_lower_vec, mg_upper_vec, lower_now, upper_now, mg_out, mg_steps>>

updateStmtsVars == <<us_pc, us_table, us_clamps, us_chunks, us_k, us_count, us_trace, us_result>>

deleteStmtsVars == <<dl_pc, dl_table, dl_clamps, dl_b, dl_c, dl_count, dl_trace, dl_result>>

pipelineVars == <<pl_pc, pl_steps, pl_i, next_input, pl_calls, pl_tick, pl_result>>

cacheOpsVars == <<ops_removed, ops_found>>

recordRaceVars == <<rec_pc, rec_synced, rec_calls>>

vars == <<rows, nextVid, head, snap,
          entries, entriesLock, refreshLock, last_sweep, lastSweepLock, clock, ttl, th,
          rollups, block_times, last0, last_rollup, ri, rj, rollup_inserts, rpc,
          copy_dst, copy_src, copy_result,
          ident_name, ident_result,
          fm_ids_for_type, fm_loaded, fm_result,
          fc_db, fc_block, fc_changes,
          ci_pc, ci_table, ci_chunks, ci_k, ci_written, ci_executed, ci_result,
          q_text_len, q_outcome, q_result, q_logged, q_trace, q_log_sql_timing,
          metric_inner, previously_synced, metric_calls,
          lock1, lock2, lock2_queue, lk_pc, lk_try, lk_migrate, lk_calls,
          table_heap, layout_heap, rf_self, rf_site, rf_answer, rf_result,
          mg_pc, mg_lower_vec, mg_upper_vec, lower_now, upper_now, mg_out, mg_steps,
          us_pc, us_table, us_clamps, us_chunks, us_k, us_count, us_trace, us_result,
          dl_pc, dl_table, dl_clamps, dl_b, dl_c, dl_count, dl_trace, dl_result,
          pl_pc, pl_steps, pl_i, next_input, pl_calls, pl_tick, pl_result,
          ops_removed, ops_found,
          rec_pc, rec_synced, rec_calls>>

\* What each part of the model leaves alone
storeFrame == <<cacheVars, rollupVars, copyVars, identVars, findManyVars,
    findChangesVars, insertChunksVars, queryVars, metricVars, lockVars,
    refreshVars, mergeVars, updateStmtsVars, deleteStmtsVars, pipelineVars,
    cacheOpsVars, recordRaceVars>>

cacheFrame == <<storeVars, rollupVars, copyVars, identVars, findManyVars,
    findChangesVars, insertChunksVars, queryVars, metricVars, lockVars,
    refreshVars, mergeVars, updateStmtsVars, deleteStmtsVars, pipelineVars,
    cacheOpsVars, recordRaceVars>>

rollupFrame == <<storeVars, cacheVars, copyVars, identVars, findManyVars,
    findChangesVars, insertChunksVars, queryVars, metricVars, lockVars,
    refreshVars, mergeVars, updateStmtsVars, deleteStmtsVars, pipelineVars,
    cacheOpsVars, recordRaceVars>>

copyFrame == <<storeVars, cacheVars, rollupVars, identVars, findManyVars,
    findChangesVars, insertChunksVars, queryVars, metricVars, lockVars,
    refreshVars, mergeVars, updateStmtsVars, deleteStmtsVars, pipelineVars,
    cacheOpsVars, recordRaceVars>>

identFrame == <<storeVars, cacheVars, rollupVars, copyVars, findManyVars,
    findChangesVars, insertChunksVars, queryVars, metricVars, lockVars,
    refreshVars, mergeVars, updateStmtsVars, deleteStmtsVars, pipelineVars,
    cacheOpsVars, recordRaceVars>>

findManyFrame == <<storeVars, cacheVars, rollupVars, copyVars, identVars,
    findChangesVars, insertChunksVars, queryVars, metricVars, lockVars,
    refreshVars, mergeVars, updateStmtsVars, deleteStmtsVars, pipelineVars,
    cacheOpsVars, recordRaceVars>>

findChangesFrame == <<storeVars, cacheVars, rollupVars, copyVars, identVars,
    findManyVars, insertChunksVars, queryVars, metricVars, lockVars,
    refreshVars, mergeVars, updateStmtsVars, deleteStmtsVars, pipelineVars,
    cacheOpsVars, recordRaceVars>>

insertChunksFrame == <<storeVars, cacheVars, rollupVars, copyVars, identVars,
    findManyVars, findChangesVars, queryVars, metricVars, lockVars,
    refreshVars, mergeVars, updateStmtsVars, deleteStmtsVars, pipelineVars,
    cacheOpsVars, recordRaceVars>>

queryFrame == <<storeVars, cacheVars, rollupVars, copyVars, identVars,
    findManyVars, findChangesVars, insertChunksVars, metricVars, lockVars,
    refreshVars, mergeVars, updateStmtsVars, deleteStmtsVars, pipelineVars,
    cacheOpsVars, recordRaceVars>>

metricFrame == <<storeVars, cacheVars, rollupVars, copyVars, identVars,
    findManyVars, findChangesVars, insertChunksVars, queryVars, lockVars,
    refreshVars, mergeVars, updateStmtsVars, deleteStmtsVars, pipelineVars,
    cacheOpsVars, recordRaceVars>>

lockFrame == <<storeVars, cacheVars, rollupVars, copyVars, identVars,
    findManyVars, findChangesVars, insertChunksVars, queryVars, metricVars,
    refreshVars, mergeVars, updateStmtsVars, deleteStmtsVars, pipelineVars,
    cacheOpsVars, recordRaceVars>>

refreshFrame == <<storeVars, cacheVars, rollupVars, copyVars, identVars,
    findManyVars, findChangesVars, insertChunksVars, queryVars, metricVars,
    lockVars, mergeVars, updateStmtsVars, deleteStmtsVars, pipelineVars,
    cacheOpsVars, recordRaceVars>>

mergeFrame == <<storeVars, cacheVars, rollupVars, copyVars, identVars,
    findManyVars, findChangesVars, insertChunksVars, queryVars, metricVars,
    lockVars, refreshVars, updateStmtsVars, deleteStmtsVars, pipelineVars,
    cacheOpsVars, recordRaceVars>>

updateStmtsFrame == <<storeVars, cacheVars, rollupVars, copyVars, identVars,
    findManyVars, findChangesVars, insertChunksVars, queryVars, metricVars,
    lockVars, refreshVars, mergeVars, deleteStmtsVars, pipelineVars,
    cacheOpsVars, recordRaceVars>>

deleteStmtsFrame == <<storeVars, cacheVars, rollupVars, copyVars, identVars,
    findManyVars, findChangesVars, insertChunksVars, queryVars, metricVars,
    lockVars, refreshVars, mergeVars, updateStmtsVars, pipelineVars,
    cacheOpsVars, recordRaceVars>>

pipelineFrame == <<storeVars, cacheVars, rollupVars, copyVars, identVars,
    findManyVars, findChangesVars, insertChunksVars, queryVars, metricVars,
    lockVars, refreshVars, mergeVars, updateStmtsVars, deleteStmtsVars,
    cacheOpsVars, recordRaceVars>>

cacheOpsFrame == <<storeVars, cacheVars, rollupVars, copyVars, identVars,
    findManyVars, findChangesVars, insertChunksVars, queryVars, metricVars,
    lockVars, refreshVars, mergeVars, updateStmtsVars, deleteStmtsVars,
    pipelineVars, recordRaceVars>>

recordRaceFrame == <<storeVars, cacheVars, rollupVars, copyVars, identVars,
    findManyVars, findChangesVars, insertChunksVars, queryVars, metricVars,
    lockVars, refreshVars, mergeVars, updateStmtsVars, deleteStmtsVars,
    pipelineVars, cacheOpsVars>>

cacheAndOpsFrame == <<storeVars, rollupVars, copyVars, identVars,
    findManyVars, findChangesVars, insertChunksVars, queryVars, metricVars,
    lockVars, refreshVars, mergeVars, updateStmtsVars, deleteStmtsVars,
    pipelineVars, recordRaceVars>>

metricAndRaceFrame == <<storeVars, cacheVars, rollupVars, copyVars,
    identVars, findManyVars, findChangesVars, insertChunksVars, queryVars,
    lockVars, refreshVars, mergeVars, updateStmtsVars, deleteStmtsVars,
    pipelineVars, cacheOpsVars>>

(***************************************************************************)
(* Rows and block ranges                                                   *)
(***************************************************************************)
\* A version of an entity: mutable tables carry [lower, upper), upper = None
\* is the open bound; immutable tables carry only block$ (lower)
Row(t, id, vid, lower, upper, val) ==
    [tbl |-> t, id |-> id, vid |-> vid, lower |-> lower, upper |-> upper, val |-> val]

IsOpen(r) == r.upper = None

\* dsl::Table::at_block: block_range @> block, resp. block$ <= block
at_block(r, b) ==
    /\ r.lower <= b
    /\ (IsOpen(r) \/ b < r.upper[1])

\* The rows that Layout::find selects for (entity type, id) at block
FindRows(rs, t, id, b) == {r \in rs : r.tbl = t /\ r.id = id /\ at_block(r, b)}

\* Layout::find: get_result(..).optional()
find(rs, t, id, b) ==
    LET cand == FindRows(rs, t, id, b)
    IN IF cand = {} THEN None
       ELSE Some((CHOOSE r \in cand : \A o \in cand : r.vid <= o.vid).val)

(***************************************************************************)
(* RowGroup: the modifications of one entity type; here all at one block   *)
(***************************************************************************)
Kinds == {"Insert", "Overwrite", "Remove"}

\* The groups whose rows carry the data v
GroupsWith(v) ==
    {[entity_type |-> t, block |-> b, val |-> v, kind |-> k] :
        t \in Tables, b \in Blocks, k \in [Ids -> Kinds \cup {"Absent"}]}

Groups == UNION {GroupsWith(v) : v \in Vals}

\* EntityModification::is_clamp
clamp_ids(g) == {i \in Ids : g.kind[i] \in {"Overwrite", "Remove"}}

\* RowGroup::has_clamps
has_clamps(g) == clamp_ids(g) # {}

\* RowGroup::write_chunks: the rows that carry data
write_ids(g) == {i \in Ids : g.kind[i] \in {"Insert", "Overwrite"}}

(***************************************************************************)
(* The statements                                                          *)
(***************************************************************************)
\* ClampRangeQuery: close the open version of each id at block
ClampRangeQuery(rs, t, ids, b) ==
    LET hit == {r \in rs : r.tbl = t /\ r.id \in ids /\ IsOpen(r)}
    IN [rows |-> (rs \ hit) \cup {[r EXCEPT !.upper = Some(b)] : r \in hit},
        count |-> Cardinality(hit)]

\* The position of id among ids in ascending order, starting at 0
Pos(ids, i) == Cardinality({j \in ids : j < i})

\* InsertQuery: one new open version per row, vids from the sequence
InsertQuery(rs, t, ids, b, v, vid0) ==
    [rows |-> rs \cup {Row(t, i, vid0 + Pos(ids, i), b, None, v) : i \in ids},
     count |-> Cardinality(ids)]

\* RevertRemoveQuery: delete the versions whose range lies entirely at or
\* after block, returning their ids
RevertRemoveQuery(rs, t, b) ==
    LET hit == {r \in rs : r.tbl = t /\ r.lower >= b}
    IN [rows |-> rs \ hit, ids |-> {r.id : r \in hit}]

\* RevertClampQuery: make the versions current that exist at block but are
\* closed, returning their ids
RevertClampQuery(rs, t, b) ==
    LET hit == {r \in rs : r.tbl = t /\ at_block(r, b) /\ ~IsOpen(r)}
    IN [rows |-> (rs \ hit) \cup {[r EXCEPT !.upper = None] : r \in hit},
        ids |-> {r.id : r \in hit}]

(***************************************************************************)
(* Layout::insert / update / delete / revert_block as functions of rows    *)
(***************************************************************************)
Ok(rs, n) == [ok |-> TRUE, rows |-> rs, ret |-> n]
Err(rs) == [ok |-> FALSE, rows |-> rs, ret |-> 0]

insert(rs, g, vid0) ==
    LET ins == InsertQuery(rs, g.entity_type, write_ids(g), g.block, g.val, vid0)
    IN Ok(ins.rows, 0)

\* update that forgets to clamp before it inserts
update_noclamp(rs, g, vid0) ==
    IF immutable(g.entity_type) /\ has_clamps(g)
    THEN Err(rs)
    ELSE LET ins == InsertQuery(rs, g.entity_type, write_ids(g), g.block, g.val, vid0)
         IN Ok(ins.rows, ins.count)

\* update that clamps one block too late
update_clamp_late(rs, g, vid0) ==
    IF immutable(g.entity_type) /\ has_clamps(g)
    THEN Err(rs)
    ELSE LET cl == ClampRangeQuery(rs, g.entity_type, clamp_ids(g), g.block + 1)
             ins == InsertQuery(cl.rows, g.entity_type, write_ids(g), g.block, g.val, vid0)
         IN Ok(ins.rows, ins.count)

\* update without the check for immutable tables
update_nocheck(rs, g, vid0) ==
    LET cl == ClampRangeQuery(rs, g.entity_type, clamp_ids(g), g.block)
        ins == InsertQuery(cl.rows, g.entity_type, write_ids(g), g.block, g.val, vid0)
    IN Ok(ins.rows, ins.count)

update(rs, g, vid0) ==
    IF immutable(g.entity_type) /\ has_clamps(g)
    THEN Err(rs)
    ELSE LET cl == ClampRangeQuery(rs, g.entity_type, clamp_ids(g), g.block)
             ins == InsertQuery(cl.rows, g.entity_type, write_ids(g), g.block, g.val, vid0)
         IN Ok(ins.rows, ins.count)

delete(rs, g) ==
    IF ~has_clamps(g)
    THEN Ok(rs, 0)
    ELSE IF immutable(g.entity_type)
         THEN Err(rs)
         ELSE LET cl == ClampRangeQuery(rs, g.entity_type, clamp_ids(g), g.block)
              IN Ok(cl.rows, cl.count)

\* revert_block that never unclamps
revert_table_noclamp(rs, t, b) ==
    LET rem == RevertRemoveQuery(rs, t, b)
    IN [rows |-> rem.rows, count |-> 0 - Cardinality(rem.ids)]

\* revert_block that removes from block + 1 on
revert_table_remove_late(rs, t, b) ==
    LET rem == RevertRemoveQuery(rs, t, b + 1)
        unc == IF immutable(t)
               THEN [rows |-> rem.rows, ids |-> {}]
               ELSE RevertClampQuery(rem.rows, t, b - 1)
        deleted == Cardinality(rem.ids \ unc.ids)
        inserted == Cardinality(unc.ids \ rem.ids)
    IN [rows |-> unc.rows, count |-> inserted - deleted]

\* revert_block that unclamps the versions that exist at block
revert_table_clamp_at_block(rs, t, b) ==
    LET rem == RevertRemoveQuery(rs, t, b)
        unc == IF immutable(t)
               THEN [rows |-> rem.rows, ids |-> {}]
               ELSE RevertClampQuery(rem.rows, t, b)
        deleted == Cardinality(rem.ids \ unc.ids)
        inserted == Cardinality(unc.ids \ rem.ids)
    IN [rows |-> unc.rows, count |-> inserted - deleted]

\* One iteration of the loop over the tables in revert_block
revert_table(rs, t, b) ==
    LET rem == RevertRemoveQuery(rs, t, b)
        unc == IF immutable(t)
               THEN [rows |-> rem.rows, ids |-> {}]
               ELSE RevertClampQuery(rem.rows, t, b - 1)
        deleted == Cardinality(rem.ids \ unc.ids)
        inserted == Cardinality(unc.ids \ rem.ids)
    IN [rows |-> unc.rows, count |-> inserted - deleted]

RECURSIVE revert_tables(_, _, _, _)
revert_tables(rs, b, n, count) ==
    IF n > Len(TableSeq)
    THEN [rows |-> rs, count |-> count]
    ELSE LET one == revert_table(rs, TableSeq[n], b)
         IN revert_tables(one.rows, b, n + 1, count + one.count)

revert_block(rs, b) == revert_tables(rs, b, 1, 0)

(***************************************************************************)
(* What the writer guarantees about the groups it hands to the layout      *)
(***************************************************************************)
\* Blocks are written in ascending order, every write carries data of its
\* own, and the vid sequence is bounded
InOrder(g) ==
    /\ g.val = nextVid
    /\ g.block >= head
    /\ nextVid + Cardinality(write_ids(g)) - 1 <= MaxVid

\* A clamp at block closes a version that started before block
ClampContract(g) ==
    \A r \in rows : (r.tbl = g.entity_type /\ r.id \in clamp_ids(g) /\ IsOpen(r))
                        => r.lower < g.block

\* A new version does not overlap an existing version of the same entity:
\* the entity has no open version and nothing reaches beyond block
WriteContract(rs, g) ==
    \A r \in rs : (r.tbl = g.entity_type /\ r.id \in write_ids(g))
                        => (~IsOpen(r) /\ r.upper[1] <= g.block)

(***************************************************************************)
(* History: snap[c] holds the rows as they were before the first write at  *)
(* a block >= c, for every c <= head                                       *)
(***************************************************************************)
SnapAfterWrite(b) ==
    [c \in Blocks |-> IF head < c /\ c <= b THEN Some(rows) ELSE snap[c]]

SnapAfterRevert(b) ==
    [c \in Blocks |-> IF c >= b THEN None ELSE snap[c]]

\* The state the store had when no version had a bound >= c
Base(c) == IF c > head THEN rows ELSE snap[c][1]

(***************************************************************************)
(* Initial state and the calls on the layout                               *)
(***************************************************************************)
StoreInit ==
    /\ rows = {}
    /\ nextVid = 1
    /\ head = 0
    /\ snap = [c \in Blocks |-> None]

Wrote(op, g, res) ==
    /\ rows' = res.rows
    /\ nextVid' = IF res.ok /\ op # "delete"
                  THEN nextVid + Cardinality(write_ids(g)) ELSE nextVid
    /\ head' = IF res.rows # rows THEN g.block ELSE head
    /\ snap' = IF res.rows # rows THEN SnapAfterWrite(g.block) ELSE snap

Insert(g) ==
    /\ InOrder(g)
    /\ WriteContract(rows, g)
    /\ Wrote("insert", g, insert(rows, g, nextVid))

\* The groups the writer may hand to update in the current state
UpdateEnabled(g) ==
    /\ InOrder(g)
    /\ ClampContract(g)
    /\ WriteContract(ClampRangeQuery(rows, g.entity_type, clamp_ids(g), g.block).rows, g)

Update(g) ==
    /\ UpdateEnabled(g)
    /\ Wrote("update", g, update(rows, g, nextVid))

Delete(g) ==
    /\ InOrder(g)
    /\ ClampContract(g)
    /\ Wrote("delete", g, delete(rows, g))

RevertBlock(b) ==
    LET res == revert_block(rows, b)
    IN /\ rows' = res.rows
       /\ head' = IF b <= head THEN b - 1 ELSE head
       /\ snap' = SnapAfterRevert(b)
       /\ UNCHANGED nextVid

StoreNext ==
    \/ \E v \in Vals : \E g \in GroupsWith(v) : Insert(g) /\ UNCHANGED storeFrame
    \/ \E v \in Vals : \E g \in GroupsWith(v) : Update(g) /\ UNCHANGED storeFrame
    \/ \E v \in Vals : \E g \in GroupsWith(v) : Delete(g) /\ UNCHANGED storeFrame
    \/ \E b \in Blocks : RevertBlock(b) /\ UNCHANGED storeFrame

(***************************************************************************)
(* LayoutCache                                                             *)
(***************************************************************************)
Threads == {"t1", "t2"}
Deployments == {"d1", "d2"}
Times == 0..MaxTime

\* Arc<Layout>: the layout of a deployment, told apart by the time at which
\* it was built from the catalog
Layout(d, built) == [deployment |-> d, built |-> built]

\* CacheEntry
CacheEntry(value, expires) == [value |-> value, expires |-> expires]

\* The locals of a thread that is not inside a call
Idle == [pc |-> "idle", site |-> "d1", now |-> 0, layout |-> None, how |-> "none"]

\* LayoutCache::new(ttl): caching is switched off with a ttl of zero
CacheInit ==
    /\ ttl \in {0, TTL}
    /\ entries = [d \in Deployments |-> None]
    /\ entriesLock = None
    /\ refreshLock = None
    /\ last_sweep = 0
    /\ lastSweepLock = None
    /\ clock = 0
    /\ th = [t \in Threads |-> Idle]

\* Mutex::lock: blocks while another thread holds the mutex
CanLock(lock) == lock = None

\* a try_lock that hands out the guard although the mutex is held
try_lock_always(t) == Some(t)

\* Mutex::try_lock on LayoutCache.refresh: the guard, or None when it is held
try_lock(t) == IF refreshLock = None THEN Some(t) ELSE None

\* Instant - Instant saturates at zero
Since(now, earlier) == IF now >= earlier THEN now - earlier ELSE 0

\* get: let now = Instant::now()
Get(t, d) ==
    /\ th[t].pc = "idle"
    /\ th' = [th EXCEPT ![t] = [Idle EXCEPT !.pc = "g_read", !.site = d, !.now = clock]]
    /\ UNCHANGED <<entries, entriesLock, refreshLock, last_sweep, lastSweepLock, clock, ttl>>

\* get that keeps the guard of the entry map alive after the lookup
GetRead_keep_lock(t) ==
    /\ th[t].pc = "g_read"
    /\ CanLock(entriesLock)
    /\ entriesLock' = Some(t)
    /\ LET entry == entries[th[t].site]
       IN th' = [th EXCEPT ![t] =
                    IF entry = None
                    THEN [@ EXCEPT !.pc = "g_load"]
                    ELSE IF th[t].now <= entry[1].expires
                    THEN [@ EXCEPT !.pc = "s_check", !.layout = Some(entry[1].value),
                                   !.how = "unexpired"]
                    ELSE [@ EXCEPT !.pc = "g_try", !.layout = Some(entry[1].value)]]
    /\ UNCHANGED <<entries, refreshLock, last_sweep, lastSweepLock, clock, ttl>>

\* get that loads the layout anew when the entry has expired
GetRead_load_on_expired(t) ==
    /\ th[t].pc = "g_read"
    /\ CanLock(entriesLock)
    /\ LET entry == entries[th[t].site]
       IN th' = [th EXCEPT ![t] =
                    IF entry = None
                    THEN [@ EXCEPT !.pc = "g_load"]
                    ELSE IF th[t].now <= entry[1].expires
                    THEN [@ EXCEPT !.pc = "s_check", !.layout = Some(entry[1].value),
                                   !.how = "unexpired"]
                    ELSE [@ EXCEPT !.pc = "g_load"]]
    /\ UNCHANGED <<entries, entriesLock, refreshLock, last_sweep, lastSweepLock, clock, ttl>>

\* get: { let lock = self.entries.lock().unwrap(); lock.get(..).cloned() }
\* and the match on the entry up to the try_lock or the load; layout holds
\* the value of the entry
GetRead(t) ==
    /\ th[t].pc = "g_read"
    /\ CanLock(entriesLock)
    /\ LET entry == entries[th[t].site]
       IN th' = [th EXCEPT ![t] =
                    IF entry = None
                    THEN [@ EXCEPT !.pc = "g_load"]
                    ELSE IF th[t].now <= entry[1].expires
                    THEN [@ EXCEPT !.pc = "s_check", !.layout = Some(entry[1].value),
                                   !.how = "unexpired"]
                    ELSE [@ EXCEPT !.pc = "g_try", !.layout = Some(entry[1].value)]]
    /\ UNCHANGED <<entries, entriesLock, refreshLock, last_sweep, lastSweepLock, clock, ttl>>

\* get that refreshes although it did not get the refresh lock
GetTryLock_refresh_anyway(t) ==
    /\ th[t].pc = "g_try"
    /\ LET refresh == try_lock(t)
       IN IF refresh = None
          THEN /\ th' = [th EXCEPT ![t].pc = "g_refresh"]
               /\ UNCHANGED refreshLock
          ELSE /\ refreshLock' = refresh
               /\ th' = [th EXCEPT ![t].pc = "g_refresh"]
    /\ UNCHANGED <<entries, entriesLock, last_sweep, lastSweepLock, clock, ttl>>

\* get: let refresh = self.refresh.try_lock(); if refresh.is_err() { value }
GetTryLock(t) ==
    /\ th[t].pc = "g_try"
    /\ LET refresh == try_lock(t)
       IN IF refresh = None
          THEN /\ th' = [th EXCEPT ![t].pc = "s_check", ![t].how = "stale"]
               /\ UNCHANGED refreshLock
          ELSE /\ refreshLock' = refresh
               /\ th' = [th EXCEPT ![t].pc = "g_refresh"]
    /\ UNCHANGED <<entries, entriesLock, last_sweep, lastSweepLock, clock, ttl>>

\* LayoutCache::refresh: value.refresh(conn, site) fails, returns the value
\* itself when nothing has changed, or returns a new layout
RefreshResults == {"failed", "same", "new"}

\* refresh that returns the stale layout of a failed refresh without caching it
GetRefresh_no_recache(t, res) ==
    /\ th[t].pc = "g_refresh"
    /\ th' = [th EXCEPT ![t].pc = IF res = "failed" THEN "g_unlock" ELSE "c_insert",
                        ![t].layout = IF res = "new" THEN Some(Layout(th[t].site, clock))
                                      ELSE th[t].layout,
                        ![t].how = IF res = "failed" THEN "refresh_failed" ELSE "refreshed"]
    /\ UNCHANGED <<entries, entriesLock, refreshLock, last_sweep, lastSweepLock, clock, ttl>>

GetRefresh(t, res) ==
    /\ th[t].pc = "g_refresh"
    /\ th' = [th EXCEPT ![t].pc = "c_insert",
                        ![t].layout = IF res = "new" THEN Some(Layout(th[t].site, clock))
                                      ELSE th[t].layout,
                        ![t].how = IF res = "failed" THEN "refresh_failed" ELSE "refreshed"]
    /\ UNCHANGED <<entries, entriesLock, refreshLock, last_sweep, lastSweepLock, clock, ttl>>

\* get: Self::load(conn, site)? reads the catalog and may fail, which ends get
GetLoad(t, ok) ==
    /\ th[t].pc = "g_load"
    /\ th' = [th EXCEPT ![t] =
                IF ok
                THEN [@ EXCEPT !.pc = "c_insert",
                               !.layout = Some(Layout(th[t].site, clock)),
                               !.how = "loaded"]
                ELSE Idle]
    /\ UNCHANGED <<entries, entriesLock, refreshLock, last_sweep, lastSweepLock, clock, ttl>>

\* Layout::is_cacheable
is_cacheable(layout) == TRUE

\* cache that stores the layout whatever the ttl is
CacheInsert_always(t) ==
    /\ th[t].pc = "c_insert"
    /\ CanLock(entriesLock)
    /\ LET layout == th[t].layout[1]
       IN entries' = [entries EXCEPT ![layout.deployment] =
                                        Some(CacheEntry(layout, clock + ttl))]
    /\ th' = [th EXCEPT ![t].pc = IF th[t].how = "loaded" THEN "s_check" ELSE "g_unlock"]
    /\ UNCHANGED <<entriesLock, refreshLock, last_sweep, lastSweepLock, clock, ttl>>

\* cache that computes the expiry from the time at which get started
CacheInsert_expires_from_get(t) ==
    /\ th[t].pc = "c_insert"
    /\ LET layout == th[t].layout[1]
       IN IF ttl > 0 /\ is_cacheable(layout)
          THEN /\ CanLock(entriesLock)
               /\ entries' = [entries EXCEPT ![layout.deployment] =
                                                Some(CacheEntry(layout, th[t].now + ttl))]
          ELSE UNCHANGED entries
    /\ th' = [th EXCEPT ![t].pc = IF th[t].how = "loaded" THEN "s_check" ELSE "g_unlock"]
    /\ UNCHANGED <<entriesLock, refreshLock, last_sweep, lastSweepLock, clock, ttl>>

\* cache: if self.ttl > Duration::ZERO && layout.is_cacheable() {
\*            self.entries.lock().unwrap().insert(deployment,
\*                CacheEntry { expires: Instant::now() + self.ttl, value }) }
CacheInsert(t) ==
    /\ th[t].pc = "c_insert"
    /\ LET layout == th[t].layout[1]
       IN IF ttl > 0 /\ is_cacheable(layout)
          THEN /\ CanLock(entriesLock)
               /\ entries' = [entries EXCEPT ![layout.deployment] =
                                                Some(CacheEntry(layout, clock + ttl))]
          ELSE UNCHANGED entries
    /\ th' = [th EXCEPT ![t].pc = IF th[t].how = "loaded" THEN "s_check" ELSE "g_unlock"]
    /\ UNCHANGED <<entriesLock, refreshLock, last_sweep, lastSweepLock, clock, ttl>>

\* get: the guard refresh is dropped at the end of its block
GetUnlockRefresh(t) ==
    /\ th[t].pc = "g_unlock"
    /\ refreshLock' = None
    /\ th' = [th EXCEPT ![t].pc = "s_check"]
    /\ UNCHANGED <<entries, entriesLock, last_sweep, lastSweepLock, clock, ttl>>

\* ENV_VARS.store.schema_cache_ttl, the setting the cache is built with
schema_cache_ttl == ttl

\* sweep that keeps the guard of last_sweep alive after the test
SweepCheck_keep_lock(t) ==
    /\ th[t].pc = "s_check"
    /\ CanLock(lastSweepLock)
    /\ IF Since(th[t].now, last_sweep) < schema_cache_ttl
       THEN th' = [th EXCEPT ![t] = Idle] /\ UNCHANGED lastSweepLock
       ELSE th' = [th EXCEPT ![t].pc = "s_entries"] /\ lastSweepLock' = Some(t)
    /\ UNCHANGED <<entries, entriesLock, refreshLock, last_sweep, clock, ttl>>

\* sweep: if now - *self.last_sweep.lock().unwrap() < schema_cache_ttl { return },
\* which ends get
SweepCheck(t) ==
    /\ th[t].pc = "s_check"
    /\ CanLock(lastSweepLock)
    /\ th' = [th EXCEPT ![t] = IF Since(th[t].now, last_sweep) < schema_cache_ttl
                               THEN Idle
                               ELSE [@ EXCEPT !.pc = "s_entries"]]
    /\ UNCHANGED <<entries, entriesLock, refreshLock, last_sweep, lastSweepLock, clock, ttl>>

\* sweep: let mut entries = self.entries.lock().unwrap()
SweepLockEntries(t) ==
    /\ th[t].pc = "s_entries"
    /\ CanLock(entriesLock)
    /\ entriesLock' = Some(t)
    /\ th' = [th EXCEPT ![t].pc = "s_retain"]
    /\ UNCHANGED <<entries, refreshLock, last_sweep, lastSweepLock, clock, ttl>>

\* sweep that evicts every entry that has expired
SweepRetain_no_grace(t) ==
    /\ th[t].pc = "s_retain"
    /\ entries' = [d \in Deployments |->
                     IF entries[d] # None /\ entries[d][1].expires > th[t].now
                     THEN entries[d] ELSE None]
    /\ th' = [th EXCEPT ![t].pc = "s_last"]
    /\ UNCHANGED <<entriesLock, refreshLock, last_sweep, lastSweepLock, clock, ttl>>

\* sweep: entries.retain(|_, entry| entry.expires + self.ttl > now)
SweepRetain(t) ==
    /\ th[t].pc = "s_retain"
    /\ entries' = [d \in Deployments |->
                     IF entries[d] # None /\ entries[d][1].expires + ttl > th[t].now
                     THEN entries[d] ELSE None]
    /\ th' = [th EXCEPT ![t].pc = "s_last"]
    /\ UNCHANGED <<entriesLock, refreshLock, last_sweep, lastSweepLock, clock, ttl>>

\* sweep: self.last_sweep.lock().unwrap(), while entries is still locked
SweepLockLast(t) ==
    /\ th[t].pc = "s_last"
    /\ CanLock(lastSweepLock)
    /\ lastSweepLock' = Some(t)
    /\ th' = [th EXCEPT ![t].pc = "s_set"]
    /\ UNCHANGED <<entries, entriesLock, refreshLock, last_sweep, clock, ttl>>

\* sweep: *last_sweep = now; both guards are dropped and get returns
SweepSet(t) ==
    /\ th[t].pc = "s_set"
    /\ last_sweep' = th[t].now
    /\ lastSweepLock' = None
    /\ entriesLock' = None
    /\ th' = [th EXCEPT ![t] = Idle]
    /\ UNCHANGED <<entries, refreshLock, clock, ttl>>

\* Time passes; an entry is never given an expiry beyond the bound of the clock
Tick ==
    /\ clock + ttl < MaxTime
    /\ clock' = clock + 1
    /\ UNCHANGED <<entries, entriesLock, refreshLock, last_sweep, lastSweepLock, ttl, th>>

CacheNext ==
    \/ \E t \in Threads, d \in Deployments : Get(t, d) /\ UNCHANGED cacheFrame
    \/ \E t \in Threads : GetRead(t) /\ UNCHANGED cacheFrame
    \/ \E t \in Threads : GetTryLock(t) /\ UNCHANGED cacheFrame
    \/ \E t \in Threads, res \in RefreshResults : GetRefresh(t, res) /\ UNCHANGED cacheFrame
    \/ \E t \in Threads, ok \in BOOLEAN : GetLoad(t, ok) /\ UNCHANGED cacheFrame
    \/ \E t \in Threads : CacheInsert(t) /\ UNCHANGED cacheFrame
    \/ \E t \in Threads : GetUnlockRefresh(t) /\ UNCHANGED cacheFrame
    \/ \E t \in Threads : SweepCheck(t) /\ UNCHANGED cacheFrame
    \/ \E t \in Threads : SweepLockEntries(t) /\ UNCHANGED cacheFrame
    \/ \E t \in Threads : SweepRetain(t) /\ UNCHANGED cacheFrame
    \/ \E t \in Threads : SweepLockLast(t) /\ UNCHANGED cacheFrame
    \/ \E t \in Threads : SweepSet(t) /\ UNCHANGED cacheFrame
    \/ Tick /\ UNCHANGED cacheFrame

(***************************************************************************)
(* Layout::rollup                                                          *)
(***************************************************************************)
\* AggregationInterval
Intervals == {"hour", "day"}

\* AggregationInterval::as_duration, in a unit of half an hour scaled so
\* that a day is two hours: every day boundary is an hour boundary
as_duration(interval) == IF interval = "hour" THEN 2 ELSE 4

\* BlockTime
RollupTimes == 0..MaxRollupTime

\* BlockTime::bucket: the number of the bucket of the given length that
\* holds the time
bucket(time, length) == time \div length

\* AggregationInterval::buckets(from, to): the buckets that end in
\* from < end <= to, in increasing order; a bucket is given by its start
buckets(interval, from, to) ==
    LET length == as_duration(interval)
        first == bucket(from, length)
        last == bucket(to, length)
    IN IF first < last
       THEN [k \in 1..(last - first) |-> (first + k - 1) * length]
       ELSE <<>>

\* InputSchema::agg_mappings: the aggregation mappings of the schema, in
\* increasing order of interval size
agg_mappings ==
    {m \in UNION {[1..n -> Intervals] : n \in 0..MaxRollups} :
        \A i, j \in 1..Len(m) : i < j => as_duration(m[i]) <= as_duration(m[j])}

\* a list of rollups built back to front
rollups_reversed(mappings) ==
    [k \in 1..Len(mappings) |-> mappings[Len(mappings) + 1 - k]]

\* Layout::rollups: one Rollup for each aggregation mapping, in the order of
\* the mappings
Layout_rollups(mappings) ==
    [k \in 1..Len(mappings) |-> mappings[k]]

\* The blocks of the pairs of one call
RollupBlocks == 1..MaxPairs

\* The lists of (block, block_time) a writer hands to rollup: blocks ascend
\* and their times do not decrease
BlockTimeLists ==
    {bt \in UNION {[1..n -> RollupBlocks \X RollupTimes] : n \in 0..MaxPairs} :
        \A i, j \in 1..Len(bt) :
            i < j => (bt[i][1] < bt[j][1] /\ bt[i][2] <= bt[j][2])}

\* block_times.iter().map(|(_, block_time)| *block_time).min().unwrap()
MinBlockTime(bt) ==
    CHOOSE m \in {bt[i][2] : i \in 1..Len(bt)} : \A i \in 1..Len(bt) : m <= bt[i][2]

RollupInit ==
    /\ rollups = <<>>
    /\ block_times = <<>>
    /\ last0 = None
    /\ last_rollup = 0
    /\ ri = 1
    /\ rj = 1
    /\ rollup_inserts = <<>>
    /\ rpc = "idle"

\* rollup is called on a layout built for the mappings:
\* if block_times.is_empty() { return Ok(()) }
\* let mut last_rollup = last_rollup.unwrap_or_else(|| min of the block times)
Rollup(mappings, last, bt) ==
    /\ rpc = "idle"
    /\ rollups' = Layout_rollups(mappings)
    /\ block_times' = bt
    /\ last0' = last
    /\ rpc' = IF bt = <<>> THEN "ok" ELSE "rollup"
    /\ last_rollup' = IF bt = <<>> THEN last_rollup
                      ELSE IF last = None THEN MinBlockTime(bt) ELSE last[1]
    /\ UNCHANGED <<ri, rj, rollup_inserts>>

\* The buckets of the rollup and the pair the loops are at
CurrentBuckets == buckets(rollups[rj], last_rollup, block_times[ri][2])

\* rollup that inserts the last bucket of the span
RollupInsert_last_bucket(ok) ==
    /\ rpc = "rollup" /\ rj <= Len(rollups)
    /\ CurrentBuckets # <<>>
    /\ IF ok
       THEN /\ rollup_inserts' = Append(rollup_inserts,
                    [rollup |-> rj, bucket |-> CurrentBuckets[Len(CurrentBuckets)],
                     block |-> block_times[ri][1]])
            /\ rj' = rj + 1
            /\ UNCHANGED rpc
       ELSE /\ rpc' = "err"
            /\ UNCHANGED <<rj, rollup_inserts>>
    /\ UNCHANGED <<rollups, block_times, last0, last_rollup, ri>>

\* rollup: Some(bucket) => rollup.insert(conn, &bucket, *block)?
RollupInsert(ok) ==
    /\ rpc = "rollup" /\ rj <= Len(rollups)
    /\ CurrentBuckets # <<>>
    /\ IF ok
       THEN /\ rollup_inserts' = Append(rollup_inserts,
                    [rollup |-> rj, bucket |-> Head(CurrentBuckets),
                     block |-> block_times[ri][1]])
            /\ rj' = rj + 1
            /\ UNCHANGED rpc
       ELSE /\ rpc' = "err"
            /\ UNCHANGED <<rj, rollup_inserts>>
    /\ UNCHANGED <<rollups, block_times, last0, last_rollup, ri>>

\* rollup: None => break
RollupBreak ==
    /\ rpc = "rollup" /\ rj <= Len(rollups)
    /\ CurrentBuckets = <<>>
    /\ rj' = Len(rollups) + 1
    /\ UNCHANGED <<rollups, block_times, last0, last_rollup, ri, rollup_inserts, rpc>>

\* rollup that goes on to the next pair with the last_rollup it had
RollupNextPair_keep_last ==
    /\ rpc = "rollup" /\ rj > Len(rollups)
    /\ rj' = 1
    /\ ri' = IF ri < Len(block_times) THEN ri + 1 ELSE ri
    /\ rpc' = IF ri < Len(block_times) THEN "rollup" ELSE "ok"
    /\ UNCHANGED <<rollups, block_times, last0, last_rollup, rollup_inserts>>

\* rollup: last_rollup = *block_time, and the next pair or Ok(())
RollupNextPair ==
    /\ rpc = "rollup" /\ rj > Len(rollups)
    /\ last_rollup' = block_times[ri][2]
    /\ rj' = 1
    /\ ri' = IF ri < Len(block_times) THEN ri + 1 ELSE ri
    /\ rpc' = IF ri < Len(block_times) THEN "rollup" ELSE "ok"
    /\ UNCHANGED <<rollups, block_times, last0, rollup_inserts>>

\* rollup has returned; the layout is ready for the next call
RollupReturn ==
    /\ rpc \in {"ok", "err"}
    /\ rollups' = <<>>
    /\ block_times' = <<>>
    /\ last0' = None
    /\ last_rollup' = 0
    /\ ri' = 1
    /\ rj' = 1
    /\ rollup_inserts' = <<>>
    /\ rpc' = "idle"

RollupNext ==
    \/ /\ rpc = "idle"
       /\ \E m \in agg_mappings, last \in {None} \cup {Some(x) : x \in RollupTimes},
             bt \in BlockTimeLists : Rollup(m, last, bt)
       /\ UNCHANGED rollupFrame
    \/ \E ok \in BOOLEAN : RollupInsert(ok) /\ UNCHANGED rollupFrame
    \/ RollupBreak /\ UNCHANGED rollupFrame
    \/ RollupNextPair /\ UNCHANGED rollupFrame
    \/ RollupReturn /\ UNCHANGED rollupFrame

(***************************************************************************)
(* Table::can_copy_from                                                    *)
(***************************************************************************)
\* SqlName of a column
ColumnNames == <<"a", "b">>

\* EnumType.values
EnumValueSets == {{"A", "B"}, {"A", "B", "C"}, {"A", "B", "D"}}

\* ColumnType: two of the scalar types, TSVector(FulltextConfig) and
\* Enum(EnumType)
ColumnType ==
    {[kind |-> k] : k \in {"Int", "String"}}
    \cup {[kind |-> "TSVector", config |-> c] : c \in {"simple", "english"}}
    \cup {[kind |-> "Enum", values |-> v] : v \in EnumValueSets}

\* Column: name, column_type and what is_nullable and is_list tell of the
\* field_type; a fulltext column has the named type "fulltext"
Columns(name) ==
    {[name |-> name, column_type |-> ty, nullable |-> n, list |-> l] :
        ty \in {t \in ColumnType : t.kind # "TSVector"}, n \in BOOLEAN, l \in BOOLEAN}
    \cup {[name |-> name, column_type |-> ty, nullable |-> TRUE, list |-> FALSE] :
            ty \in {t \in ColumnType : t.kind = "TSVector"}}

\* Table.columns: at most one column of each name
CopyTables ==
    {SelectSeq(<<c1, c2>>, LAMBDA c : c # None) :
        c1 \in {None} \cup Columns(ColumnNames[1]),
        c2 \in {None} \cup Columns(ColumnNames[2])}

\* Column::is_nullable, Column::is_list
is_nullable(column) == column.nullable
is_list(column) == column.list

\* EnumType::is_assignable_from
enum_is_assignable_from(self_enum, source_enum) ==
    IF source_enum.values \subseteq self_enum.values
    THEN None
    ELSE Some("enum values")

\* is_assignable_from that accepts only an enum with the same values
is_assignable_from_same_enum(self, source) ==
    IF ~is_nullable(self) /\ is_nullable(source)
    THEN Some("nullable")
    ELSE IF self.column_type.kind = "Enum"
    THEN IF source.column_type.kind = "Enum"
         THEN IF source.column_type.values = self.column_type.values
              THEN None ELSE Some("enum values")
         ELSE Some("enum type")
    ELSE IF self.column_type # source.column_type \/ is_list(self) # is_list(source)
    THEN Some("type")
    ELSE None

\* Column::is_assignable_from
is_assignable_from(self, source) ==
    IF ~is_nullable(self) /\ is_nullable(source)
    THEN Some("nullable")
    ELSE IF self.column_type.kind = "Enum"
    THEN IF source.column_type.kind = "Enum"
         THEN enum_is_assignable_from(self.column_type, source.column_type)
         ELSE Some("enum type")
    ELSE IF self.column_type # source.column_type \/ is_list(self) # is_list(source)
    THEN Some("type")
    ELSE None

\* Table::column: the first column of the name that is not a TSVector
column(table, name) ==
    LET found == SelectSeq(table, LAMBDA c : c.column_type.kind # "TSVector" /\ c.name = name)
    IN IF found = <<>> THEN None ELSE Some(found[1])

\* The reason can_copy_from gives for one column of the destination, if any
copy_reason(dcol, source) ==
    LET scol == column(source, dcol.name)
    IN IF scol # None
       THEN is_assignable_from(dcol, scol[1])
       ELSE IF ~is_nullable(dcol) THEN Some("missing") ELSE None

\* Table::can_copy_from: the reasons of the columns of self, in their order
can_copy_from(self, source) ==
    LET reasons == [k \in 1..Len(self) |-> copy_reason(self[k], source)]
        kept == SelectSeq([k \in 1..Len(self) |-> k], LAMBDA k : reasons[k] # None)
    IN [n \in 1..Len(kept) |-> [column |-> self[kept[n]].name, reason |-> reasons[kept[n]][1]]]

CopyInit ==
    /\ copy_dst = <<>>
    /\ copy_src = <<>>
    /\ copy_result = None

\* dst.can_copy_from(src) is called and returns
CanCopyFrom(dst, source) ==
    /\ copy_result = None
    /\ copy_dst' = dst
    /\ copy_src' = source
    /\ copy_result' = Some(can_copy_from(dst, source))

\* The caller is done with the result
CopyDone ==
    /\ copy_result # None
    /\ copy_dst' = <<>>
    /\ copy_src' = <<>>
    /\ copy_result' = None

CopyNext ==
    \/ /\ copy_result = None
       /\ \E dst \in CopyTables, source \in CopyTables : CanCopyFrom(dst, source)
       /\ UNCHANGED copyFrame
    \/ CopyDone /\ UNCHANGED copyFrame

(***************************************************************************)
(* Layout::find_range                                                      *)
(***************************************************************************)
\* EntityDataExt: a row as FindRangeQuery returns it, block_number being the
\* bound of the row that was asked for
EntityDataExt(r, b) ==
    [entity |-> r.tbl, id |-> r.id, block_number |-> b, vid |-> r.vid, data |-> r.val]

\* compare_entity_data_ext(a, b) = Ordering::Less
ede_less(a, b) ==
    \/ a.block_number < b.block_number
    \/ /\ a.block_number = b.block_number
       /\ \/ TypeRank(a.entity) < TypeRank(b.entity)
          \/ /\ a.entity = b.entity
             /\ a.id < b.id

\* compare_entity_data_ext(a, b) = Ordering::Equal
ede_equal(a, b) ==
    /\ a.block_number = b.block_number
    /\ a.entity = b.entity
    /\ a.id = b.id

\* order by block_number, entity, id
RECURSIVE OrderBy(_)
OrderBy(S) ==
    IF S = {} THEN <<>>
    ELSE LET m == CHOOSE x \in S :
                    \A y \in S : ede_less(x, y) \/ (ede_equal(x, y) /\ x.vid <= y.vid)
         IN <<m>> \o OrderBy(S \ {m})

\* FindRangeQuery: the rows of the tables whose lower, resp. upper bound lies
\* in the range [from, to); immutable tables have no upper bound
FindRangeQuery(rs, tables, side, from, to) ==
    OrderBy(IF side = "Lower"
            THEN {EntityDataExt(r, r.lower) :
                    r \in {x \in rs : x.tbl \in tables /\ from <= x.lower /\ x.lower < to}}
            ELSE {EntityDataExt(r, r.upper[1]) :
                    r \in {x \in rs : /\ x.tbl \in tables
                                      /\ ~immutable(x.tbl)
                                      /\ ~IsOpen(x)
                                      /\ from <= x.upper[1]
                                      /\ x.upper[1] < to}})

\* the closure transform: EntitySourceOperation and the block it belongs to
transform(ede, entity_op) ==
    [entity_op |-> entity_op, entity_type |-> ede.entity, id |-> ede.id,
     data |-> ede.data, vid |-> ede.vid, block |-> ede.block_number]

\* The merge loop with the Equal arm reporting a Create and advancing only
\* the lower side
RECURSIVE merge_no_modify(_, _, _, _, _)
merge_no_modify(lower_vec, upper_vec, i, j, out) ==
    IF i > Len(lower_vec) /\ j > Len(upper_vec)
    THEN out
    ELSE IF i <= Len(lower_vec) /\ j <= Len(upper_vec)
    THEN IF ede_less(upper_vec[j], lower_vec[i])
         THEN merge_no_modify(lower_vec, upper_vec, i, j + 1,
                    Append(out, transform(upper_vec[j], "Delete")))
         ELSE merge_no_modify(lower_vec, upper_vec, i + 1, j,
                    Append(out, transform(lower_vec[i], "Create")))
    ELSE IF i <= Len(lower_vec)
    THEN merge_no_modify(lower_vec, upper_vec, i + 1, j,
               Append(out, transform(lower_vec[i], "Create")))
    ELSE merge_no_modify(lower_vec, upper_vec, i, j + 1,
               Append(out, transform(upper_vec[j], "Delete")))

\* The merge loop: i and j are the positions of lower_now and upper_now
RECURSIVE merge(_, _, _, _, _)
merge(lower_vec, upper_vec, i, j, out) ==
    IF i > Len(lower_vec) /\ j > Len(upper_vec)
    THEN out
    ELSE IF i <= Len(lower_vec) /\ j <= Len(upper_vec)
    THEN IF ede_less(upper_vec[j], lower_vec[i])
         THEN merge(lower_vec, upper_vec, i, j + 1,
                    Append(out, transform(upper_vec[j], "Delete")))
         ELSE IF ede_less(lower_vec[i], upper_vec[j])
         THEN merge(lower_vec, upper_vec, i + 1, j,
                    Append(out, transform(lower_vec[i], "Create")))
         ELSE merge(lower_vec, upper_vec, i + 1, j + 1,
                    Append(out, transform(lower_vec[i], "Modify")))
    ELSE IF i <= Len(lower_vec)
    THEN merge(lower_vec, upper_vec, i + 1, j,
               Append(out, transform(lower_vec[i], "Create")))
    ELSE merge(lower_vec, upper_vec, i, j + 1,
               Append(out, transform(upper_vec[j], "Delete")))

\* The operations of out that belong to block, in the order they were pushed
RECURSIVE OfBlock(_, _)
OfBlock(out, b) ==
    IF out = <<>> THEN <<>>
    ELSE IF Head(out).block = b
         THEN <<Head(out)>> \o OfBlock(Tail(out), b)
         ELSE OfBlock(Tail(out), b)

\* vec.sort_by(|a, b| a.vid.cmp(&b.vid)): a stable sort
RECURSIVE InsertByVid(_, _)
InsertByVid(sorted, x) ==
    IF sorted = <<>> THEN <<x>>
    ELSE IF x.vid < Head(sorted).vid
         THEN <<x>> \o sorted
         ELSE <<Head(sorted)>> \o InsertByVid(Tail(sorted), x)

RECURSIVE SortByVid(_)
SortByVid(vec) ==
    IF vec = <<>> THEN <<>>
    ELSE InsertByVid(SortByVid(SubSeq(vec, 1, Len(vec) - 1)), vec[Len(vec)])

\* find_range without the sort of the buckets at its end: every block keeps
\* its operations in the order the merge pushed them
find_range_unsorted(rs, entity_types, from, to) ==
    LET lower_vec == FindRangeQuery(rs, entity_types, "Lower", from, to)
        upper_vec == FindRangeQuery(rs, entity_types, "Upper", from, to)
        out == merge(lower_vec, upper_vec, 1, 1, <<>>)
        blocks == {out[n].block : n \in 1..Len(out)}
    IN [b \in blocks |-> OfBlock(out, b)]

\* Layout::find_range: the map from block number to the operations of the block
find_range(rs, entity_types, from, to) ==
    LET lower_vec == FindRangeQuery(rs, entity_types, "Lower", from, to)
        upper_vec == FindRangeQuery(rs, entity_types, "Upper", from, to)
        out == merge(lower_vec, upper_vec, 1, 1, <<>>)
        blocks == {out[n].block : n \in 1..Len(out)}
    IN [b \in blocks |-> SortByVid(OfBlock(out, b))]

(***************************************************************************)
(* SqlName::check_valid_identifier                                         *)
(***************************************************************************)
\* The characters a name is drawn from: ASCII letters, an ASCII digit, the
\* underscore, an ASCII character that is none of these, and a letter and a
\* digit outside ASCII (written as their code points)
Chars == {"a", "Z", "7", "_", "-", "U+00E9", "U+0663"}

Names == UNION {[1..n -> Chars] : n \in 0..MaxNameLen}

\* char::is_ascii_alphabetic
is_ascii_alphabetic(c) == c \in {"a", "Z"}

\* char::is_ascii_alphanumeric
is_ascii_alphanumeric(c) == c \in {"a", "Z", "7"}

\* Ok(())
IdentOk == <<"Ok">>

\* Err(StoreError::InvalidIdentifier(msg)); the message is kept as the name of
\* the rule that was broken
InvalidIdentifier(msg) == <<"InvalidIdentifier", msg>>

\* The loop `for c in chars` over the characters from position i on
RECURSIVE check_rest(_, _)
check_rest(name, i) ==
    IF i > Len(name) THEN IdentOk
    ELSE IF ~is_ascii_alphanumeric(name[i]) /\ name[i] # "_"
         THEN InvalidIdentifier("contain")
         ELSE check_rest(name, i + 1)

\* A variant that takes the comment above the function at its word: the
\* first character has to be a letter
check_valid_identifier_letter_first(name) ==
    IF name = <<>> THEN InvalidIdentifier("empty")
    ELSE IF ~is_ascii_alphabetic(name[1]) THEN InvalidIdentifier("start")
    ELSE check_rest(name, 2)

check_valid_identifier(name) ==
    IF name = <<>> THEN InvalidIdentifier("empty")
    ELSE IF ~is_ascii_alphabetic(name[1]) /\ name[1] # "_"
         THEN InvalidIdentifier("start")
         ELSE check_rest(name, 2)

IdentInit ==
    /\ ident_name = None
    /\ ident_result = None

CheckValidIdentifier(name) ==
    /\ ident_result = None
    /\ ident_name' = Some(name)
    /\ ident_result' = Some(check_valid_identifier(name))

IdentDone ==
    /\ ident_result # None
    /\ ident_name' = None
    /\ ident_result' = None

IdentNext ==
    \/ /\ ident_result = None
       /\ \E name \in Names : CheckValidIdentifier(name)
       /\ UNCHANGED identFrame
    \/ IdentDone /\ UNCHANGED identFrame

(***************************************************************************)
(* Layout::find_many                                                       *)
(***************************************************************************)
CausalityRegions == {0, 1}

\* The keys of ids_for_type
TypeRegions == Tables \X CausalityRegions

\* An IdList that is asked for
IdLists == {{1}, {1, 2}}

\* ids_for_type: an IdList for some pairs of entity type and causality region
IdsForType == UNION {[K -> IdLists] : K \in SUBSET TypeRegions}

\* EntityData as loaded: the entity type, and the id, the causality region
\* and the attributes of the entity it deserializes to
EntityData == [entity_type : Tables, id : Ids, causality_region : CausalityRegions,
               data : {1, 2}]

\* What the database can answer to the FindManyQuery of a request: rows of the
\* types, regions and ids asked for, in any order; the database is not assumed
\* to keep the versioning invariant
FindManyResults(ids_for_type) ==
    LET Asked == {d \in EntityData :
                     /\ <<d.entity_type, d.causality_region>> \in DOMAIN ids_for_type
                     /\ d.id \in ids_for_type[<<d.entity_type, d.causality_region>>]}
    IN  UNION {[1..n -> Asked] : n \in 0..MaxLoaded}

\* EntityType::key_in
key_in(entity_type, id, causality_region) == <<entity_type, id, causality_region>>

EntityKeyOf(d) == key_in(d.entity_type, d.id, d.causality_region)

\* BTreeMap::new()
EmptyMap == [k \in {} |-> 0]

\* BTreeMap::insert
MapInsert(m, k, v) == [x \in DOMAIN m \cup {k} |-> IF x = k THEN v ELSE m[x]]

\* Err(internal_error!("duplicate entity ..."))
DuplicateEntity(key) == [ok |-> FALSE, error |-> <<"duplicate entity", key>>]

FindManyOk(map) == [ok |-> TRUE, entities |-> map]

\* A loop that inserts without looking whether the key is there already
RECURSIVE find_many_loop_overwrite(_, _, _)
find_many_loop_overwrite(loaded, i, entities) ==
    IF i > Len(loaded) THEN FindManyOk(entities)
    ELSE find_many_loop_overwrite(loaded, i + 1,
             MapInsert(entities, EntityKeyOf(loaded[i]), loaded[i].data))

\* The loop over the loaded rows, from row i on
RECURSIVE find_many_loop(_, _, _)
find_many_loop(loaded, i, entities) ==
    IF i > Len(loaded) THEN FindManyOk(entities)
    ELSE LET key == EntityKeyOf(loaded[i])
         IN  IF key \in DOMAIN entities
             THEN DuplicateEntity(key)
             ELSE find_many_loop(loaded, i + 1, MapInsert(entities, key, loaded[i].data))

FindManyInit ==
    /\ fm_ids_for_type = None
    /\ fm_loaded = None
    /\ fm_result = None

\* find_many(ids_for_type, block); loaded is what query.load returns, and
\* stays None when the query is not run
FindMany(ids_for_type, loaded) ==
    /\ fm_result = None
    /\ fm_ids_for_type' = Some(ids_for_type)
    /\ IF ids_for_type = EmptyMap
       THEN /\ fm_loaded' = None
            /\ fm_result' = Some(FindManyOk(EmptyMap))
       ELSE /\ fm_loaded' = Some(loaded)
            /\ fm_result' = Some(find_many_loop(loaded, 1, EmptyMap))

FindManyDone ==
    /\ fm_result # None
    /\ fm_ids_for_type' = None
    /\ fm_loaded' = None
    /\ fm_result' = None

FindManyNext ==
    \/ /\ fm_result = None
       /\ \E ids_for_type \in IdsForType :
              \E loaded \in FindManyResults(ids_for_type) : FindMany(ids_for_type, loaded)
       /\ UNCHANGED findManyFrame
    \/ FindManyDone /\ UNCHANGED findManyFrame

(***************************************************************************)
(* Layout::find_changes                                                    *)
(***************************************************************************)
\* POI_TABLE
POI_TABLE == "poi2$"

\* self.tables.values(): the entity tables and the proof-of-indexing table
LayoutTables == <<"Imm", "Mut", POI_TABLE>>

ChangeBlocks == 1..MaxChangeBlock

\* The block ranges a version can have: immutable tables have no upper bound
ChangeRanges(t) ==
    {<<l, None>> : l \in ChangeBlocks}
        \cup (IF immutable(t) THEN {}
              ELSE {<<b[1], Some(b[2])>> :
                        b \in {c \in ChangeBlocks \X ChangeBlocks : c[1] < c[2]}})

\* What a version in the database can be, apart from its vid
ChangeVersions ==
    UNION {[tbl : {LayoutTables[k]}, id : Ids, range : ChangeRanges(LayoutTables[k]),
            causality_region : CausalityRegions] : k \in 1..Len(LayoutTables)}

\* The contents of the database: the version with vid k is db[k]; the
\* database is not assumed to keep the versioning invariant
ChangeDatabases == UNION {[1..n -> ChangeVersions] : n \in 0..MaxDbRows}

\* The tables find_changes passes to its queries
change_tables(with_poi) ==
    SelectSeq(LayoutTables, LAMBDA t : with_poi \/ t # POI_TABLE)

InTables(t, tables) == \E k \in 1..Len(tables) : tables[k] = t

\* FindChangesQuery: the versions of the tables whose range starts at block,
\* here in the order of their vids
FindChangesQuery(db, tables, block) ==
    SelectSeq(db, LAMBDA v : InTables(v.tbl, tables) /\ v.range[1] = block)

\* FindPossibleDeletionsQuery: the versions of the tables whose range ends at
\* block, here in the order of their vids
FindPossibleDeletionsQuery(db, tables, block) ==
    SelectSeq(db, LAMBDA v : InTables(v.tbl, tables) /\ v.range[2] = Some(block))

\* EntityOperation::Set { key, data }
SetOp(v) ==
    [op |-> "Set", key |-> key_in(v.tbl, v.id, v.causality_region), data |-> v]

\* EntityOperation::Remove { key }
RemoveOp(del) ==
    [op |-> "Remove", key |-> key_in(del.tbl, del.id, del.causality_region)]

\* The first loop: one Set per loaded version, and the entities seen
SetOps(inserts_or_updates) ==
    [k \in 1..Len(inserts_or_updates) |-> SetOp(inserts_or_updates[k])]

processed_entities(inserts_or_updates) ==
    {<<inserts_or_updates[k].tbl, inserts_or_updates[k].id>> :
         k \in 1..Len(inserts_or_updates)}

\* The second loop: one Remove per deletion of an entity that was not seen
RemoveOps(deletions, processed) ==
    LET kept == SelectSeq(deletions, LAMBDA del : <<del.tbl, del.id>> \notin processed)
    IN  [k \in 1..Len(kept) |-> RemoveOp(kept[k])]

\* A variant that scans the proof-of-indexing table as well
find_changes_with_poi(db, block) ==
    LET tables == change_tables(TRUE)
        inserts_or_updates == FindChangesQuery(db, tables, block)
        deletions == FindPossibleDeletionsQuery(db, tables, block)
    IN  SetOps(inserts_or_updates)
            \o RemoveOps(deletions, processed_entities(inserts_or_updates))

\* A variant that reports every possible deletion
find_changes_all_deletions(db, block) ==
    LET tables == change_tables(FALSE)
        inserts_or_updates == FindChangesQuery(db, tables, block)
        deletions == FindPossibleDeletionsQuery(db, tables, block)
    IN  SetOps(inserts_or_updates) \o RemoveOps(deletions, {})

find_changes(db, block) ==
    LET tables == change_tables(FALSE)
        inserts_or_updates == FindChangesQuery(db, tables, block)
        deletions == FindPossibleDeletionsQuery(db, tables, block)
    IN  SetOps(inserts_or_updates)
            \o RemoveOps(deletions, processed_entities(inserts_or_updates))

FindChangesInit ==
    /\ fc_db = <<>>
    /\ fc_block = None
    /\ fc_changes = None

FindChanges(db, block) ==
    /\ fc_changes = None
    /\ fc_db' = db
    /\ fc_block' = Some(block)
    /\ fc_changes' = Some(find_changes(db, block))

FindChangesDone ==
    /\ fc_changes # None
    /\ fc_db' = <<>>
    /\ fc_block' = None
    /\ fc_changes' = None

FindChangesNext ==
    \/ /\ fc_changes = None
       /\ \E db \in ChangeDatabases, block \in ChangeBlocks : FindChanges(db, block)
       /\ UNCHANGED findChangesFrame
    \/ FindChangesDone /\ UNCHANGED findChangesFrame

(***************************************************************************)
(* Layout::insert, chunk by chunk                                          *)
(***************************************************************************)
\* The rows of a group as far as insert looks at them: an id and a block
WriteRows == [id : Ids, block : 1..2]

\* WriteChunk: some rows of the group, possibly none
WriteChunks == UNION {[1..n -> WriteRows] : n \in 0..2}

\* group.write_chunks(chunk_size): the chunks of the group, in order
ChunkLists == UNION {[1..n -> WriteChunks] : n \in 0..MaxChunks}

\* What one chunk can run into: InsertQuery::new fails, execute fails, or the
\* statement succeeds
ChunkOutcomes == {"ok", "new_err", "execute_err"}

MaxOf(S) == CHOOSE x \in S : \A y \in S : y <= x

\* chunk_details(chunk).0: the highest block of the rows of the chunk
chunk_details(chunk) == MaxOf({chunk[i].block : i \in 1..Len(chunk)} \cup {0})

\* StoreError::write_failure(e, table.object.as_str(), block, msg)
write_failure(table, block) == [error |-> "WriteFailure", table |-> table, block |-> block]

InsertChunksInit ==
    /\ ci_pc = "idle"
    /\ ci_table = None
    /\ ci_chunks = <<>>
    /\ ci_k = 1
    /\ ci_written = <<>>
    /\ ci_executed = <<>>
    /\ ci_result = None

\* insert(group): the lookup of the table and the chunks of the group
InsertChunks(table, known, chunks) ==
    /\ ci_pc = "idle"
    /\ ci_table' = Some(table)
    /\ ci_k' = 1
    /\ ci_written' = <<>>
    /\ ci_executed' = <<>>
    /\ IF known
       THEN /\ ci_pc' = "loop"
            /\ ci_chunks' = chunks
            /\ ci_result' = None
       ELSE /\ ci_pc' = "returned"
            /\ ci_chunks' = <<>>
            /\ ci_result' = Some([error |-> "UnknownTable"])

\* A variant that goes on with the next chunk after a failed statement
ChunkExecute_keep_going(outcome) ==
    /\ ci_pc = "loop"
    /\ ci_k <= Len(ci_chunks)
    /\ ci_chunks[ci_k] # <<>>
    /\ ci_executed' = IF outcome = "new_err" THEN ci_executed ELSE Append(ci_executed, ci_k)
    /\ ci_written' = IF outcome = "ok" THEN ci_written \o ci_chunks[ci_k] ELSE ci_written
    /\ ci_k' = ci_k + 1
    /\ IF outcome = "new_err"
       THEN ci_pc' = "returned" /\ ci_result' = Some([error |-> "InsertQuery"])
       ELSE IF outcome = "execute_err"
            THEN /\ ci_pc' = "loop"
                 /\ ci_result' =
                        Some(write_failure(ci_table[1], chunk_details(ci_chunks[ci_k])))
            ELSE UNCHANGED <<ci_pc, ci_result>>
    /\ UNCHANGED <<ci_table, ci_chunks>>

\* One turn of the loop for a chunk that is not empty
ChunkExecute(outcome) ==
    /\ ci_pc = "loop"
    /\ ci_k <= Len(ci_chunks)
    /\ ci_chunks[ci_k] # <<>>
    /\ ci_executed' = IF outcome = "new_err" THEN ci_executed ELSE Append(ci_executed, ci_k)
    /\ ci_written' = IF outcome = "ok" THEN ci_written \o ci_chunks[ci_k] ELSE ci_written
    /\ IF outcome = "ok"
       THEN /\ ci_k' = ci_k + 1
            /\ UNCHANGED <<ci_pc, ci_result>>
       ELSE /\ ci_k' = ci_k
            /\ ci_pc' = "returned"
            /\ ci_result' =
                   IF outcome = "new_err"
                   THEN Some([error |-> "InsertQuery"])
                   ELSE Some(write_failure(ci_table[1], chunk_details(ci_chunks[ci_k])))
    /\ UNCHANGED <<ci_table, ci_chunks>>

\* One turn of the loop for an empty chunk
ChunkSkip ==
    /\ ci_pc = "loop"
    /\ ci_k <= Len(ci_chunks)
    /\ ci_chunks[ci_k] = <<>>
    /\ ci_k' = ci_k + 1
    /\ UNCHANGED <<ci_pc, ci_table, ci_chunks, ci_written, ci_executed, ci_result>>

\* The end of the loop: Ok(()), unless a result has been set already
InsertChunksOk ==
    /\ ci_pc = "loop"
    /\ ci_k > Len(ci_chunks)
    /\ ci_pc' = "returned"
    /\ ci_result' = IF ci_result = None THEN Some([error |-> "none"]) ELSE ci_result
    /\ UNCHANGED <<ci_table, ci_chunks, ci_k, ci_written, ci_executed>>

\* The caller takes the result; what was written stays in the database
InsertChunksDone ==
    /\ ci_pc = "returned"
    /\ ci_pc' = "idle"
    /\ ci_table' = None
    /\ ci_chunks' = <<>>
    /\ ci_k' = 1
    /\ ci_written' = <<>>
    /\ ci_executed' = <<>>
    /\ ci_result' = None

InsertChunksNext ==
    \/ /\ ci_pc = "idle"
       /\ \E table \in Tables, known \in BOOLEAN, chunks \in ChunkLists :
              InsertChunks(table, known, chunks)
       /\ UNCHANGED insertChunksFrame
    \/ \E outcome \in ChunkOutcomes : ChunkExecute(outcome) /\ UNCHANGED insertChunksFrame
    \/ ChunkSkip /\ UNCHANGED insertChunksFrame
    \/ InsertChunksOk /\ UNCHANGED insertChunksFrame
    \/ InsertChunksDone /\ UNCHANGED insertChunksFrame

(***************************************************************************)
(* Layout::query: the translation of errors, and log_query_timing          *)
(***************************************************************************)
\* A text is modelled by its length in bytes; the lengths around MAXLEN
TextLens == {0, 1, MAXLEN - 1, MAXLEN, MAXLEN + 1, 2 * MAXLEN}

\* diesel::result::Error as far as query tells errors apart: the variant, the
\* kind of a DatabaseError, and whether its message starts with
\* "syntax error in tsquery"
DieselErrors ==
    [variant : {"DatabaseError"}, kind : {"Unknown", "UniqueViolation"},
     tsquery : BOOLEAN]
        \cup [variant : {"NotFound"}, kind : {"none"}, tsquery : {FALSE}]

\* What a call of query can run into: the construction of the statement
\* fails, the transaction fails with a diesel error, a row cannot be
\* deserialized, or all is well
QueryOutcomes ==
    [at : {"new", "deserialize", "ok"}]
        \cup [at : {"transaction"}, e : DieselErrors]

\* The closure passed to map_err: text_len is the length of query_text. A
\* variant that cuts the statement text to MAXLEN
query_map_err_truncated(e, text_len) ==
    IF e.variant = "DatabaseError" /\ e.kind = "Unknown" /\ e.tsquery
    THEN [error |-> "FulltextQueryInvalidSyntax"]
    ELSE [error |-> "ResolveEntitiesError", e |-> e,
          query_len |-> IF text_len > MAXLEN THEN MAXLEN ELSE text_len]

\* The closure passed to map_err: text_len is the length of query_text
query_map_err(e, text_len) ==
    IF e.variant = "DatabaseError" /\ e.kind = "Unknown" /\ e.tsquery
    THEN [error |-> "FulltextQueryInvalidSyntax"]
    ELSE [error |-> "ResolveEntitiesError", e |-> e, query_len |-> text_len]

\* log_query_timing: the trace returned and the length of the text logged
\* (None when nothing is logged)
log_query_timing(text_len, trace, log_sql_timing) ==
    IF ~log_sql_timing /\ ~trace
    THEN [trace |-> "None", logged |-> None]
    ELSE [trace |-> IF trace THEN "query" ELSE "None",
          logged |-> IF log_sql_timing
                     THEN Some(IF text_len > MAXLEN THEN MAXLEN + 4 ELSE text_len)
                     ELSE None]

QueryInit ==
    /\ q_text_len = None
    /\ q_outcome = None
    /\ q_result = None
    /\ q_logged = None
    /\ q_trace = None
    /\ q_log_sql_timing = FALSE

\* query(logger, conn, query): text_len is the length of the text of the
\* statement, trace is query.trace
Query(text_len, outcome, trace, log_sql_timing) ==
    /\ q_result = None
    /\ q_text_len' = Some(text_len)
    /\ q_outcome' = Some(outcome)
    /\ q_trace' = Some(trace)
    /\ q_log_sql_timing' = log_sql_timing
    /\ IF outcome.at = "new"
       THEN /\ q_result' = Some([error |-> "StoreError"])
            /\ q_logged' = None
       ELSE IF outcome.at = "transaction"
       THEN /\ q_result' = Some(query_map_err(outcome.e, text_len))
            /\ q_logged' = None
       ELSE LET t == log_query_timing(text_len, trace, log_sql_timing)
            IN  /\ q_logged' = t.logged
                /\ q_result' = IF outcome.at = "deserialize"
                               THEN Some([error |-> "StoreError"])
                               ELSE Some([error |-> "none", trace |-> t.trace])

QueryDone ==
    /\ q_result # None
    /\ q_text_len' = None
    /\ q_outcome' = None
    /\ q_result' = None
    /\ q_logged' = None
    /\ q_trace' = None
    /\ q_log_sql_timing' = FALSE

QueryNext ==
    \/ /\ q_result = None
       /\ \E text_len \in TextLens, outcome \in QueryOutcomes,
             trace \in BOOLEAN, log_sql_timing \in BOOLEAN :
              Query(text_len, outcome, trace, log_sql_timing)
       /\ UNCHANGED queryFrame
    \/ QueryDone /\ UNCHANGED queryFrame

(***************************************************************************)
(* DeploymentSyncedMetric (graph/src/components/metrics/subgraph.rs)       *)
(***************************************************************************)
\* IntGauge::set
IntGauge_set(value) == metric_inner' = value

\* A record that has no memory of an earlier true
record_no_latch(synced) ==
    /\ IF synced THEN IntGauge_set(SYNCED) ELSE IntGauge_set(NOT_SYNCED)
    /\ UNCHANGED previously_synced

\* DeploymentSyncedMetric::record; previously_synced is None while the
\* OnceLock is empty
record(synced) ==
    IF previously_synced # None
    THEN UNCHANGED <<metric_inner, previously_synced>>
    ELSE IF synced
         THEN /\ IntGauge_set(SYNCED)
              /\ previously_synced' = Some("unit")
         ELSE /\ IntGauge_set(NOT_SYNCED)
              /\ UNCHANGED previously_synced

\* DeploymentSyncedMetric::register: a new gauge reads 0
MetricInit ==
    /\ metric_inner = 0
    /\ previously_synced = None
    /\ metric_calls = <<>>

\* One call of record in a series of calls made one after the other
Record(synced) ==
    /\ Len(metric_calls) < MaxCalls
    /\ record(synced)
    /\ metric_calls' = Append(metric_calls, synced)

MetricNext ==
    \E synced \in BOOLEAN : Record(synced) /\ UNCHANGED metricFrame

(***************************************************************************)
(* The migration lock (store/postgres/src/advisory_lock.rs)                *)
(***************************************************************************)
\* The database sessions (connections) that use the migration lock
Sessions == {"s1", "s2", "s3"}

\* pg_try_advisory_lock(key) by session s: a session-level advisory lock is
\* got when no other session holds it
pg_try_advisory_lock(holder, s) == holder = None \/ holder = Some(s)

\* pg_advisory_unlock(key) by session s: releases the lock if s holds it, and
\* does nothing (but warn) if it does not
pg_advisory_unlock(holder, s) == IF holder = Some(s) THEN None ELSE holder

LockInit ==
    /\ lock1 = None
    /\ lock2 = None
    /\ lock2_queue = <<>>
    /\ lk_pc = [s \in Sessions |-> "idle"]
    /\ lk_try = [s \in Sessions |-> FALSE]
    /\ lk_migrate = [s \in Sessions |-> None]
    /\ lk_calls = [s \in Sessions |-> 0]

\* lock_migration(conn): the session sends the statement
LockMigration(s) ==
    /\ lk_pc[s] = "idle"
    /\ lk_calls[s] < MaxLockCalls
    /\ lk_calls' = [lk_calls EXCEPT ![s] = @ + 1]
    /\ lk_pc' = [lk_pc EXCEPT ![s] = "try_lock_1"]
    /\ UNCHANGED <<lock1, lock2, lock2_queue, lk_try, lk_migrate>>

\* A pg_try_advisory_lock(1) that is granted whoever holds the lock
TryLockOne_always(s) ==
    /\ lk_pc[s] = "try_lock_1"
    /\ lk_try' = [lk_try EXCEPT ![s] = TRUE]
    /\ lock1' = Some(s)
    /\ lock2_queue' = Append(lock2_queue, s)
    /\ lk_pc' = [lk_pc EXCEPT ![s] = "lock_2"]
    /\ UNCHANGED <<lock2, lk_migrate, lk_calls>>

\* The first item of the select list: pg_try_advisory_lock(1) as migrate;
\* the session then queues for lock 2
TryLockOne(s) ==
    /\ lk_pc[s] = "try_lock_1"
    /\ lk_try' = [lk_try EXCEPT ![s] = pg_try_advisory_lock(lock1, s)]
    /\ lock1' = IF pg_try_advisory_lock(lock1, s) THEN Some(s) ELSE lock1
    /\ lock2_queue' = Append(lock2_queue, s)
    /\ lk_pc' = [lk_pc EXCEPT ![s] = "lock_2"]
    /\ UNCHANGED <<lock2, lk_migrate, lk_calls>>

\* A pg_advisory_lock(2) that does not wait for the holder
LockTwo_no_wait(s) ==
    /\ lk_pc[s] = "lock_2"
    /\ lock2_queue # <<>>
    /\ Head(lock2_queue) = s
    /\ lock2' = Some(s)
    /\ lock2_queue' = Tail(lock2_queue)
    /\ lk_migrate' = [lk_migrate EXCEPT ![s] = Some(lk_try[s])]
    /\ lk_pc' = [lk_pc EXCEPT ![s] = "locked"]
    /\ UNCHANGED <<lock1, lk_try, lk_calls>>

\* The second item of the select list: pg_advisory_lock(2) waits until no
\* other session holds lock 2, the waiting sessions being served in the order
\* of their arrival; lock_migration then returns lock.migrate
LockTwo(s) ==
    /\ lk_pc[s] = "lock_2"
    /\ lock2 = None
    /\ lock2_queue # <<>>
    /\ Head(lock2_queue) = s
    /\ lock2' = Some(s)
    /\ lock2_queue' = Tail(lock2_queue)
    /\ lk_migrate' = [lk_migrate EXCEPT ![s] = Some(lk_try[s])]
    /\ lk_pc' = [lk_pc EXCEPT ![s] = "locked"]
    /\ UNCHANGED <<lock1, lk_try, lk_calls>>

\* unlock_migration(conn), first item: pg_advisory_unlock(1)
UnlockOne(s) ==
    /\ lk_pc[s] = "locked"
    /\ lock1' = pg_advisory_unlock(lock1, s)
    /\ lk_pc' = [lk_pc EXCEPT ![s] = "unlock_2"]
    /\ UNCHANGED <<lock2, lock2_queue, lk_try, lk_migrate, lk_calls>>

\* unlock_migration(conn), second item: pg_advisory_unlock(2)
UnlockTwo(s) ==
    /\ lk_pc[s] = "unlock_2"
    /\ lock2' = pg_advisory_unlock(lock2, s)
    /\ lk_pc' = [lk_pc EXCEPT ![s] = "idle"]
    /\ UNCHANGED <<lock1, lock2_queue, lk_try, lk_migrate, lk_calls>>

LockNext ==
    \/ \E s \in Sessions : LockMigration(s) /\ UNCHANGED lockFrame
    \/ \E s \in Sessions : TryLockOne(s) /\ UNCHANGED lockFrame
    \/ \E s \in Sessions : LockTwo(s) /\ UNCHANGED lockFrame
    \/ \E s \in Sessions : UnlockOne(s) /\ UNCHANGED lockFrame
    \/ \E s \in Sessions : UnlockTwo(s) /\ UNCHANGED lockFrame

(***************************************************************************)
(* Layout::refresh, with Layouts and Tables as shared objects (Arc)        *)
(***************************************************************************)
\* The entity types of the layout; the name of a table is that of its type
RefreshObjects == {"A", "B"}

Sites == {"site1", "site2"}

HistoryBlocks == {1, 2}

\* What the database answers: the names of the account-like tables and the
\* history_blocks of the deployment, or an error
RefreshAnswers ==
    [ok : {TRUE}, account_like : SUBSET RefreshObjects, history_blocks : HistoryBlocks]
        \cup [ok : {FALSE}]

\* self.tables.values().filter(..): the tables whose flag differs from the
\* database's
changed_tables(layout, tables, account_like) ==
    {o \in RefreshObjects :
         tables[layout.tables[o]].is_account_like # (o \in account_like)}

\* A number for each changed table: the order in which they are replaced
TableRank(o) == IF o = "A" THEN 1 ELSE 2

NewTableRef(changed, o, used) ==
    used + Cardinality({c \in changed : TableRank(c) <= TableRank(o)})

RefreshInit ==
    /\ table_heap = <<[object |-> "A", is_account_like |-> FALSE],
                      [object |-> "B", is_account_like |-> FALSE]>>
    /\ layout_heap = <<[site |-> "site1", history_blocks |-> 1,
                        tables |-> [o \in RefreshObjects |-> TableRank(o)]]>>
    /\ rf_self = None
    /\ rf_site = None
    /\ rf_answer = None
    /\ rf_result = None

\* A refresh that sets the flags of the tables of self where they are
Refresh_in_place(self, site, answer) ==
    /\ rf_self' = Some(self)
    /\ rf_site' = Some(site)
    /\ rf_answer' = Some(answer)
    /\ IF ~answer.ok
       THEN /\ rf_result' = Some([ok |-> FALSE])
            /\ UNCHANGED <<table_heap, layout_heap>>
       ELSE LET layout == layout_heap[self]
                changed == changed_tables(layout, table_heap, answer.account_like)
            IN  IF /\ changed = {}
                   /\ site = layout.site
                   /\ answer.history_blocks = layout.history_blocks
                THEN /\ rf_result' = Some([ok |-> TRUE, layout |-> self])
                     /\ UNCHANGED <<table_heap, layout_heap>>
                ELSE /\ Len(layout_heap) < MaxLayouts
                     /\ table_heap' =
                            [r \in 1..Len(table_heap) |->
                                IF \E o \in changed : layout.tables[o] = r
                                THEN [table_heap[r] EXCEPT
                                         !.is_account_like =
                                             table_heap[r].object \in answer.account_like]
                                ELSE table_heap[r]]
                     /\ layout_heap' =
                            Append(layout_heap,
                                   [site |-> site,
                                    history_blocks |-> answer.history_blocks,
                                    tables |-> layout.tables])
                     /\ rf_result' =
                            Some([ok |-> TRUE, layout |-> Len(layout_heap) + 1])

\* refresh(self, conn, site): self is a reference to a Layout, and the value
\* returned is one as well; Arc::new puts a new object at the next free place
Refresh(self, site, answer) ==
    /\ rf_self' = Some(self)
    /\ rf_site' = Some(site)
    /\ rf_answer' = Some(answer)
    /\ IF ~answer.ok
       THEN /\ rf_result' = Some([ok |-> FALSE])
            /\ UNCHANGED <<table_heap, layout_heap>>
       ELSE LET layout == layout_heap[self]
                changed == changed_tables(layout, table_heap, answer.account_like)
            IN  IF /\ changed = {}
                   /\ site = layout.site
                   /\ answer.history_blocks = layout.history_blocks
                THEN /\ rf_result' = Some([ok |-> TRUE, layout |-> self])
                     /\ UNCHANGED <<table_heap, layout_heap>>
                ELSE /\ Len(layout_heap) < MaxLayouts
                     /\ table_heap' =
                            [r \in 1..(Len(table_heap) + Cardinality(changed)) |->
                                IF r <= Len(table_heap)
                                THEN table_heap[r]
                                ELSE LET o == CHOOSE c \in changed :
                                                  NewTableRef(changed, c, Len(table_heap)) = r
                                     IN  [table_heap[layout.tables[o]] EXCEPT
                                             !.is_account_like = o \in answer.account_like]]
                     /\ layout_heap' =
                            Append(layout_heap,
                                   [site |-> site,
                                    history_blocks |-> answer.history_blocks,
                                    tables |->
                                        [o \in RefreshObjects |->
                                            IF o \in changed
                                            THEN NewTableRef(changed, o, Len(table_heap))
                                            ELSE layout.tables[o]]])
                     /\ rf_result' =
                            Some([ok |-> TRUE, layout |-> Len(layout_heap) + 1])

RefreshNext ==
    \E self \in 1..Len(layout_heap), site \in Sites, answer \in RefreshAnswers :
        Refresh(self, site, answer) /\ UNCHANGED refreshFrame

(***************************************************************************)
(* Layout::find_range: the merge loop, one turn at a time                  *)
(***************************************************************************)
\* (block_number, entity, id) of the entries of a stream
MergeKeys == (1..2) \X Tables \X Ids

KeyLess(a, b) ==
    \/ a[1] < b[1]
    \/ a[1] = b[1] /\ TypeRank(a[2]) < TypeRank(b[2])
    \/ a[1] = b[1] /\ a[2] = b[2] /\ a[3] < b[3]

\* The key sequences a stream can have: ordered by (block_number, entity,
\* id); no two versions of an entity start, or end, at the same block
SortedKeys ==
    {ks \in UNION {[1..n -> MergeKeys] : n \in 0..MaxStream} :
         \A n \in 1..(Len(ks) - 1) : KeyLess(ks[n], ks[n + 1])}

\* The stream with the keys ks; data and vid tell the entries of the two
\* streams apart
StreamOf(ks, side, vid0) ==
    [n \in 1..Len(ks) |->
        [entity |-> ks[n][2], id |-> ks[n][3], block_number |-> ks[n][1],
         vid |-> vid0 + n, data |-> <<side, n>>]]

MergeInit ==
    /\ mg_pc = "idle"
    /\ mg_lower_vec = <<>>
    /\ mg_upper_vec = <<>>
    /\ lower_now = 1
    /\ upper_now = 1
    /\ mg_out = <<>>
    /\ mg_steps = 0

\* The two streams are loaded, and lower_now and upper_now are set to their
\* first entries
MergeStart(lower_keys, upper_keys) ==
    /\ mg_pc = "idle"
    /\ mg_lower_vec' = StreamOf(lower_keys, "lower", MaxStream)
    /\ mg_upper_vec' = StreamOf(upper_keys, "upper", 0)
    /\ lower_now' = 1
    /\ upper_now' = 1
    /\ mg_out' = <<>>
    /\ mg_steps' = 0
    /\ mg_pc' = "loop"

\* A turn of the loop whose Equal arm reports a Create and advances only the
\* lower side
MergeStep_no_modify(ok) ==
    /\ mg_pc = "loop"
    /\ lower_now <= Len(mg_lower_vec) \/ upper_now <= Len(mg_upper_vec)
    /\ mg_steps' = mg_steps + 1
    /\ IF ~ok
       THEN /\ mg_pc' = "failed"
            /\ UNCHANGED <<lower_now, upper_now, mg_out>>
       ELSE /\ mg_pc' = "loop"
            /\ IF /\ upper_now <= Len(mg_upper_vec)
                  /\ \/ lower_now > Len(mg_lower_vec)
                     \/ ede_less(mg_upper_vec[upper_now], mg_lower_vec[lower_now])
               THEN /\ mg_out' = Append(mg_out, transform(mg_upper_vec[upper_now], "Delete"))
                    /\ upper_now' = upper_now + 1
                    /\ UNCHANGED lower_now
               ELSE /\ mg_out' = Append(mg_out, transform(mg_lower_vec[lower_now], "Create"))
                    /\ lower_now' = lower_now + 1
                    /\ UNCHANGED upper_now
    /\ UNCHANGED <<mg_lower_vec, mg_upper_vec>>

\* One turn of the while loop; ok tells whether transform succeeds
MergeStep(ok) ==
    /\ mg_pc = "loop"
    /\ lower_now <= Len(mg_lower_vec) \/ upper_now <= Len(mg_upper_vec)
    /\ mg_steps' = mg_steps + 1
    /\ IF ~ok
       THEN /\ mg_pc' = "failed"
            /\ UNCHANGED <<lower_now, upper_now, mg_out>>
       ELSE /\ mg_pc' = "loop"
            /\ IF lower_now <= Len(mg_lower_vec) /\ upper_now <= Len(mg_upper_vec)
               THEN IF ede_less(mg_upper_vec[upper_now], mg_lower_vec[lower_now])
                    THEN /\ mg_out' = Append(mg_out,
                                             transform(mg_upper_vec[upper_now], "Delete"))
                         /\ upper_now' = upper_now + 1
                         /\ UNCHANGED lower_now
                    ELSE IF ede_less(mg_lower_vec[lower_now], mg_upper_vec[upper_now])
                    THEN /\ mg_out' = Append(mg_out,
                                             transform(mg_lower_vec[lower_now], "Create"))
                         /\ lower_now' = lower_now + 1
                         /\ UNCHANGED upper_now
                    ELSE /\ mg_out' = Append(mg_out,
                                             transform(mg_lower_vec[lower_now], "Modify"))
                         /\ lower_now' = lower_now + 1
                         /\ upper_now' = upper_now + 1
               ELSE IF lower_now <= Len(mg_lower_vec)
               THEN /\ mg_out' = Append(mg_out, transform(mg_lower_vec[lower_now], "Create"))
                    /\ lower_now' = lower_now + 1
                    /\ UNCHANGED upper_now
               ELSE /\ mg_out' = Append(mg_out, transform(mg_upper_vec[upper_now], "Delete"))
                    /\ upper_now' = upper_now + 1
                    /\ UNCHANGED lower_now
    /\ UNCHANGED <<mg_lower_vec, mg_upper_vec>>

\* The loop ends: lower_now and upper_now are both None
MergeExit ==
    /\ mg_pc = "loop"
    /\ lower_now > Len(mg_lower_vec)
    /\ upper_now > Len(mg_upper_vec)
    /\ mg_pc' = "merged"
    /\ UNCHANGED <<mg_lower_vec, mg_upper_vec, lower_now, upper_now, mg_out, mg_steps>>

\* find_range returns
MergeDone ==
    /\ mg_pc \in {"merged", "failed"}
    /\ mg_pc' = "idle"
    /\ mg_lower_vec' = <<>>
    /\ mg_upper_vec' = <<>>
    /\ lower_now' = 1
    /\ upper_now' = 1
    /\ mg_out' = <<>>
    /\ mg_steps' = 0

MergeNext ==
    \/ /\ mg_pc = "idle"
       /\ \E lower_keys \in SortedKeys, upper_keys \in SortedKeys :
              MergeStart(lower_keys, upper_keys)
       /\ UNCHANGED mergeFrame
    \/ \E ok \in BOOLEAN : MergeStep(ok) /\ UNCHANGED mergeFrame
    \/ MergeExit /\ UNCHANGED mergeFrame
    \/ MergeDone /\ UNCHANGED mergeFrame

(***************************************************************************)
(* Layout::update, statement by statement                                  *)
(***************************************************************************)
\* group.clamps_by_block(): the blocks at which the group closes versions,
\* one entry per block
ClampBlockLists ==
    {bs \in UNION {[1..n -> 1..MaxClampBlocks] : n \in 0..MaxClampBlocks} :
         \A m, n \in 1..Len(bs) : m # n => bs[m] # bs[n]}

\* group.write_chunks(chunk_size): the number of rows of each chunk
UpdateChunkLists == UNION {[1..n -> 1..2] : n \in 0..MaxChunks}

\* What update can return
UpdateOk(count) == <<"Ok", count>>
UpdateErr(e) == <<"Err", e>>

\* The errors that are not the error of a statement
UnknownTableErr == <<"UnknownTable", 0>>
ImmutableViolationErr == <<"ImmutableViolation", 0>>

\* The statements update issues
ClampStmt(block) == <<"ClampRangeQuery", block>>
InsertStmt(n) == <<"InsertQuery", n>>

UpdateStmtsInit ==
    /\ us_pc = "idle"
    /\ us_table = None
    /\ us_clamps = <<>>
    /\ us_chunks = <<>>
    /\ us_k = 1
    /\ us_count = 0
    /\ us_trace = <<>>
    /\ us_result = None

\* update without the test of table.immutable && group.has_clamps()
UpdateCall_no_check(table, known, clamps, chunks) ==
    /\ us_pc = "idle"
    /\ us_table' = Some(table)
    /\ us_clamps' = clamps
    /\ us_chunks' = chunks
    /\ us_k' = 1
    /\ us_count' = 0
    /\ us_trace' = <<>>
    /\ IF ~known
       THEN us_pc' = "returned" /\ us_result' = Some(UpdateErr(UnknownTableErr))
       ELSE us_pc' = "clamp" /\ us_result' = None

\* update(group): table_for_entity and the test for immutable tables;
\* has_clamps is true when clamps_by_block yields a block
UpdateCall(table, known, clamps, chunks) ==
    /\ us_pc = "idle"
    /\ us_table' = Some(table)
    /\ us_clamps' = clamps
    /\ us_chunks' = chunks
    /\ us_k' = 1
    /\ us_count' = 0
    /\ us_trace' = <<>>
    /\ IF ~known
       THEN us_pc' = "returned" /\ us_result' = Some(UpdateErr(UnknownTableErr))
       ELSE IF immutable(table) /\ clamps # <<>>
       THEN us_pc' = "returned" /\ us_result' = Some(UpdateErr(ImmutableViolationErr))
       ELSE us_pc' = "clamp" /\ us_result' = None

\* One turn of the loop over clamps_by_block: the id list is built and the
\* ClampRangeQuery is made and executed; any of these can fail
UpdateClamp(outcome) ==
    /\ us_pc = "clamp"
    /\ us_k <= Len(us_clamps)
    /\ us_trace' = IF outcome = "new_err" THEN us_trace
                   ELSE Append(us_trace, ClampStmt(us_clamps[us_k]))
    /\ IF outcome = "ok"
       THEN /\ us_k' = us_k + 1
            /\ UNCHANGED <<us_pc, us_result>>
       ELSE /\ us_pc' = "returned"
            /\ us_result' = Some(UpdateErr(ClampStmt(us_clamps[us_k])))
            /\ UNCHANGED us_k
    /\ UNCHANGED <<us_table, us_clamps, us_chunks, us_count>>

\* The loop over the clamps has ended: count = 0 and the chunks are taken
UpdateClampsEnd ==
    /\ us_pc = "clamp"
    /\ us_k > Len(us_clamps)
    /\ us_pc' = "insert"
    /\ us_k' = 1
    /\ us_count' = 0
    /\ UNCHANGED <<us_table, us_clamps, us_chunks, us_trace, us_result>>

\* One turn of the loop over the chunks: count += InsertQuery::new(..)?.execute(conn)?
UpdateInsert(outcome) ==
    /\ us_pc = "insert"
    /\ us_k <= Len(us_chunks)
    /\ us_trace' = IF outcome = "new_err" THEN us_trace
                   ELSE Append(us_trace, InsertStmt(us_chunks[us_k]))
    /\ IF outcome = "ok"
       THEN /\ us_k' = us_k + 1
            /\ us_count' = us_count + us_chunks[us_k]
            /\ UNCHANGED <<us_pc, us_result>>
       ELSE /\ us_pc' = "returned"
            /\ us_result' = Some(UpdateErr(InsertStmt(us_chunks[us_k])))
            /\ UNCHANGED <<us_k, us_count>>
    /\ UNCHANGED <<us_table, us_clamps, us_chunks>>

\* Ok(count)
UpdateReturn ==
    /\ us_pc = "insert"
    /\ us_k > Len(us_chunks)
    /\ us_pc' = "returned"
    /\ us_result' = Some(UpdateOk(us_count))
    /\ UNCHANGED <<us_table, us_clamps, us_chunks, us_k, us_count, us_trace>>

\* The caller takes the result
UpdateStmtsDone ==
    /\ us_pc = "returned"
    /\ us_pc' = "idle"
    /\ us_table' = None
    /\ us_clamps' = <<>>
    /\ us_chunks' = <<>>
    /\ us_k' = 1
    /\ us_count' = 0
    /\ us_trace' = <<>>
    /\ us_result' = None

UpdateStmtsNext ==
    \/ /\ us_pc = "idle"
       /\ \E table \in Tables, known \in BOOLEAN,
             clamps \in ClampBlockLists, chunks \in UpdateChunkLists :
              UpdateCall(table, known, clamps, chunks)
       /\ UNCHANGED updateStmtsFrame
    \/ \E outcome \in ChunkOutcomes : UpdateClamp(outcome) /\ UNCHANGED updateStmtsFrame
    \/ UpdateClampsEnd /\ UNCHANGED updateStmtsFrame
    \/ \E outcome \in ChunkOutcomes : UpdateInsert(outcome) /\ UNCHANGED updateStmtsFrame
    \/ UpdateReturn /\ UNCHANGED updateStmtsFrame
    \/ UpdateStmtsDone /\ UNCHANGED updateStmtsFrame

(***************************************************************************)
(* Layout::delete, statement by statement                                  *)
(***************************************************************************)
\* The number of ids a block of the group can have: around the chunk size
IdCounts ==
    {1, DELETE_OPERATION_CHUNK_SIZE, DELETE_OPERATION_CHUNK_SIZE + 1,
     2 * DELETE_OPERATION_CHUNK_SIZE + 1}

\* group.clamps_by_block(): the blocks of the group that have clamps, each
\* with the number of its ids; the ids of a block are known by their
\* position 1..n in the vector ids
DeleteClampLists ==
    {cl \in UNION {[1..n -> (1..MaxClampBlocks) \X IdCounts] : n \in 0..MaxClampBlocks} :
         \A m, n \in 1..Len(cl) : m # n => cl[m][1] # cl[n][1]}

\* slice::chunks_exact(size): only the whole chunks, the remainder is left out
slice_chunks_exact(n, size) ==
    [c \in 1..(n \div size) |-> <<(c - 1) * size + 1, c * size>>]

\* slice::chunks(size) of a slice of n elements: the first and the last
\* position of every chunk
slice_chunks(n, size) ==
    [c \in 1..((n + size - 1) \div size) |->
        <<(c - 1) * size + 1, IF c * size < n THEN c * size ELSE n>>]

\* ClampRangeQuery::new(table, &chunk, block) for the ids at the positions
\* first..last of the block
DeleteStmt(block, first, last) == [block |-> block, first |-> first, last |-> last]

DeleteOk(count) == <<"Ok", count>>
DeleteErr(e) == <<"Err", e>>

DeleteStmtsInit ==
    /\ dl_pc = "idle"
    /\ dl_table = None
    /\ dl_clamps = <<>>
    /\ dl_b = 1
    /\ dl_c = 1
    /\ dl_count = 0
    /\ dl_trace = <<>>
    /\ dl_result = None

\* delete(group): nothing to do without clamps; then table_for_entity and
\* the test for immutable tables
DeleteCall(table, known, clamps) ==
    /\ dl_pc = "idle"
    /\ dl_table' = Some(table)
    /\ dl_clamps' = clamps
    /\ dl_b' = 1
    /\ dl_c' = 1
    /\ dl_count' = 0
    /\ dl_trace' = <<>>
    /\ IF clamps = <<>>
       THEN dl_pc' = "returned" /\ dl_result' = Some(DeleteOk(0))
       ELSE IF ~known
       THEN dl_pc' = "returned" /\ dl_result' = Some(DeleteErr("UnknownTable"))
       ELSE IF immutable(table)
       THEN dl_pc' = "returned" /\ dl_result' = Some(DeleteErr("ImmutableViolation"))
       ELSE dl_pc' = "loop" /\ dl_result' = None

\* One turn of the inner loop: the statement for one chunk of the ids of
\* the block; clamped is the number of rows the statement closes
DeleteClampChunk(outcome, all_open) ==
    /\ dl_pc = "loop"
    /\ dl_b <= Len(dl_clamps)
    /\ LET block == dl_clamps[dl_b][1]
           cs == slice_chunks(dl_clamps[dl_b][2], DELETE_OPERATION_CHUNK_SIZE)
           stmt == DeleteStmt(block, cs[dl_c][1], cs[dl_c][2])
           clamped == IF all_open THEN cs[dl_c][2] - cs[dl_c][1] + 1 ELSE 0
       IN /\ dl_c <= Len(cs)
          /\ IF outcome = "ok"
             THEN /\ dl_trace' = Append(dl_trace, [stmt |-> stmt, rows |-> clamped])
                  /\ dl_count' = dl_count + clamped
                  /\ dl_c' = dl_c + 1
                  /\ UNCHANGED <<dl_pc, dl_result>>
             ELSE /\ dl_pc' = "returned"
                  /\ dl_result' =
                         IF outcome = "new_err"
                         THEN Some(DeleteErr("ClampRangeQuery"))
                         ELSE Some(DeleteErr("WriteFailure"))
                  /\ UNCHANGED <<dl_trace, dl_count, dl_c>>
    /\ UNCHANGED <<dl_table, dl_clamps, dl_b>>

\* The chunks of the block are used up: the outer loop takes the next block
DeleteNextBlock ==
    /\ dl_pc = "loop"
    /\ dl_b <= Len(dl_clamps)
    /\ dl_c > Len(slice_chunks(dl_clamps[dl_b][2], DELETE_OPERATION_CHUNK_SIZE))
    /\ dl_b' = dl_b + 1
    /\ dl_c' = 1
    /\ UNCHANGED <<dl_pc, dl_table, dl_clamps, dl_count, dl_trace, dl_result>>

\* Ok(count)
DeleteReturn ==
    /\ dl_pc = "loop"
    /\ dl_b > Len(dl_clamps)
    /\ dl_pc' = "returned"
    /\ dl_result' = Some(DeleteOk(dl_count))
    /\ UNCHANGED <<dl_table, dl_clamps, dl_b, dl_c, dl_count, dl_trace>>

\* The caller takes the result
DeleteStmtsDone ==
    /\ dl_pc = "returned"
    /\ dl_pc' = "idle"
    /\ dl_table' = None
    /\ dl_clamps' = <<>>
    /\ dl_b' = 1
    /\ dl_c' = 1
    /\ dl_count' = 0
    /\ dl_trace' = <<>>
    /\ dl_result' = None

DeleteStmtsNext ==
    \/ /\ dl_pc = "idle"
       /\ \E table \in Tables, known \in BOOLEAN, clamps \in DeleteClampLists :
              DeleteCall(table, known, clamps)
       /\ UNCHANGED deleteStmtsFrame
    \/ \E outcome \in ChunkOutcomes, all_open \in BOOLEAN :
          DeleteClampChunk(outcome, all_open) /\ UNCHANGED deleteStmtsFrame
    \/ DeleteNextBlock /\ UNCHANGED deleteStmtsFrame
    \/ DeleteReturn /\ UNCHANGED deleteStmtsFrame
    \/ DeleteStmtsDone /\ UNCHANGED deleteStmtsFrame

(***************************************************************************)
(* Pipeline::run (graph/src/pipeline/mod.rs)                               *)
(***************************************************************************)
\* StepInput
PipeInputs == {"x", "y"}

\* anyhow::Error
PipeErrors == {"e1", "e2"}

\* StepResult
StepResult_Next(input) == <<"Next", input>>
StepResult_Restart(time_delta) == <<"Restart", time_delta>>
StepResult_Halt(error) == <<"Halt", error>>

StepResults ==
    {StepResult_Next(v) : v \in PipeInputs}
        \cup {StepResult_Restart(None), StepResult_Restart(Some(1))}
        \cup {StepResult_Halt(e) : e \in PipeErrors}

\* A call of source.tick() (step = 0) or of steps[step].handle(input, ..)
\* and what it gave
PipeCall(step, input, result) == [step |-> step, input |-> input, result |-> result]

PipelineInit ==
    /\ pl_pc = "new"
    /\ pl_steps = 0
    /\ pl_i = 1
    /\ next_input = None
    /\ pl_calls = <<>>
    /\ pl_tick = 0
    /\ pl_result = None

\* The pipeline is built with n steps and run is called
PipelineRun(n) ==
    /\ pl_pc = "new"
    /\ pl_steps' = n
    /\ pl_pc' = "tick"
    /\ UNCHANGED <<pl_i, next_input, pl_calls, pl_tick, pl_result>>

\* What follows a result of the source or of a step: the position after it,
\* or the return of run
AfterResult(result, more_steps) ==
    IF result[1] = "Next"
    THEN /\ pl_pc' = IF more_steps THEN "step" ELSE "tick"
         /\ next_input' = Some(result[2])
         /\ UNCHANGED pl_result
    ELSE IF result[1] = "Restart"
    THEN /\ pl_pc' = IF result[2] = None THEN "tick" ELSE "sleep"
         /\ next_input' = None
         /\ UNCHANGED pl_result
    ELSE /\ pl_pc' = "returned"
         /\ next_input' = None
         /\ pl_result' = Some(<<"Err", result[2]>>)

\* The top of the loop: self.source.tick().await and the match on it
SourceTick(result) ==
    /\ pl_pc = "tick"
    /\ pl_calls' = <<PipeCall(0, None, result)>>
    /\ pl_tick' = 1 - pl_tick
    /\ pl_i' = 1
    /\ AfterResult(result, 1 <= pl_steps)
    /\ UNCHANGED pl_steps

\* A turn of the for loop in which a Halt of the step ends only the loop
StepHandle_halt_breaks(result) ==
    /\ pl_pc = "step"
    /\ pl_i <= pl_steps
    /\ pl_calls' = Append(pl_calls, PipeCall(pl_i, next_input[1], result))
    /\ pl_i' = pl_i + 1
    /\ IF result[1] = "Halt"
       THEN pl_pc' = "tick" /\ next_input' = None /\ UNCHANGED pl_result
       ELSE AfterResult(result, pl_i + 1 <= pl_steps)
    /\ UNCHANGED <<pl_steps, pl_tick>>

\* A turn of the for loop in which a Restart of the step goes on with the
\* next step
StepHandle_restart_continues(result) ==
    /\ pl_pc = "step"
    /\ pl_i <= pl_steps
    /\ pl_calls' = Append(pl_calls, PipeCall(pl_i, next_input[1], result))
    /\ pl_i' = pl_i + 1
    /\ IF result[1] = "Restart"
       THEN /\ pl_pc' = IF pl_i + 1 <= pl_steps THEN "step" ELSE "tick"
            /\ UNCHANGED <<next_input, pl_result>>
       ELSE AfterResult(result, pl_i + 1 <= pl_steps)
    /\ UNCHANGED <<pl_steps, pl_tick>>

\* A turn of the for loop: step.handle(next_input, &self.handler).await and
\* the match on it
StepHandle(result) ==
    /\ pl_pc = "step"
    /\ pl_i <= pl_steps
    /\ pl_calls' = Append(pl_calls, PipeCall(pl_i, next_input[1], result))
    /\ pl_i' = pl_i + 1
    /\ AfterResult(result, pl_i + 1 <= pl_steps)
    /\ UNCHANGED <<pl_steps, pl_tick>>

\* tokio::time::sleep(time_delta).await is over: continue, resp. break
SleepOver ==
    /\ pl_pc = "sleep"
    /\ pl_pc' = "tick"
    /\ UNCHANGED <<pl_steps, pl_i, next_input, pl_calls, pl_tick, pl_result>>

PipelineNext ==
    \/ /\ pl_pc = "new"
       /\ \E n \in 0..MaxSteps : PipelineRun(n)
       /\ UNCHANGED pipelineFrame
    \/ \E result \in StepResults : SourceTick(result) /\ UNCHANGED pipelineFrame
    \/ \E result \in StepResults : StepHandle(result) /\ UNCHANGED pipelineFrame
    \/ SleepOver /\ UNCHANGED pipelineFrame

(***************************************************************************)
(* LayoutCache::find and LayoutCache::remove next to get                   *)
(***************************************************************************)
\* The deployment whose entry is looked up, evicted and loaded
OpsDeployment == "d1"

\* find: self.entries.lock().unwrap().get(&site.deployment).map(|e| e.value.clone())
cache_find(d) == IF entries[d] = None THEN None ELSE Some(entries[d][1].value)

\* The gets of deployment d that have started and have not returned
InFlight(d) == {t \in Threads : th[t].pc # "idle" /\ th[t].site = d}

CacheOpsInit ==
    /\ ops_removed = [d \in Deployments |-> None]
    /\ ops_found = None

\* find(site): the lock of the entries is held for the lookup only
Find(d) ==
    /\ CanLock(entriesLock)
    /\ ops_found' = Some(cache_find(d) # None)
    /\ UNCHANGED <<cacheVars, ops_removed>>

\* remove(site): self.entries.lock().unwrap().remove(&site.deployment);
\* the history keeps the gets of d that were in flight at that moment
Remove(d) ==
    /\ CanLock(entriesLock)
    /\ entries' = [entries EXCEPT ![d] = None]
    /\ ops_removed' = [ops_removed EXCEPT ![d] = Some(InFlight(d))]
    /\ UNCHANGED <<entriesLock, refreshLock, last_sweep, lastSweepLock, clock, ttl, th,
                   ops_found>>

\* History: a get that starts now is not one that was in flight at a removal
StartedAfter(t) ==
    /\ ops_removed' = [d \in Deployments |->
                          IF ops_removed[d] = None THEN None
                          ELSE Some(ops_removed[d][1] \ {t})]
    /\ UNCHANGED ops_found

\* History: the removal of d is over once a get that started after it has
\* cached a layout of d
CachedAfter(t) ==
    /\ ops_removed' = [d \in Deployments |->
                          IF /\ ops_removed[d] # None
                             /\ t \notin ops_removed[d][1]
                             /\ entries'[d] # entries[d]
                          THEN None ELSE ops_removed[d]]
    /\ UNCHANGED ops_found

CacheOpsNext ==
    \/ \E t \in Threads : Get(t, OpsDeployment) /\ StartedAfter(t) /\ UNCHANGED cacheAndOpsFrame
    \/ \E t \in Threads : GetRead(t) /\ UNCHANGED <<cacheOpsVars, cacheAndOpsFrame>>
    \/ \E t \in Threads : GetTryLock(t) /\ UNCHANGED <<cacheOpsVars, cacheAndOpsFrame>>
    \/ \E t \in Threads, res \in RefreshResults :
          GetRefresh(t, res) /\ UNCHANGED <<cacheOpsVars, cacheAndOpsFrame>>
    \/ \E t \in Threads, ok \in BOOLEAN :
          GetLoad(t, ok) /\ UNCHANGED <<cacheOpsVars, cacheAndOpsFrame>>
    \/ \E t \in Threads : CacheInsert(t) /\ CachedAfter(t) /\ UNCHANGED cacheAndOpsFrame
    \/ \E t \in Threads : GetUnlockRefresh(t) /\ UNCHANGED <<cacheOpsVars, cacheAndOpsFrame>>
    \/ \E t \in Threads : SweepCheck(t) /\ UNCHANGED <<cacheOpsVars, cacheAndOpsFrame>>
    \/ \E t \in Threads : SweepLockEntries(t) /\ UNCHANGED <<cacheOpsVars, cacheAndOpsFrame>>
    \/ \E t \in Threads : SweepRetain(t) /\ UNCHANGED <<cacheOpsVars, cacheAndOpsFrame>>
    \/ \E t \in Threads : SweepLockLast(t) /\ UNCHANGED <<cacheOpsVars, cacheAndOpsFrame>>
    \/ \E t \in Threads : SweepSet(t) /\ UNCHANGED <<cacheOpsVars, cacheAndOpsFrame>>
    \/ Tick /\ UNCHANGED <<cacheOpsVars, cacheAndOpsFrame>>
    \/ Find(OpsDeployment) /\ UNCHANGED cacheAndOpsFrame
    \/ Remove(OpsDeployment) /\ UNCHANGED cacheAndOpsFrame

(***************************************************************************)
(* DeploymentSyncedMetric::record called from several threads              *)
(* (graph/src/components/metrics/subgraph.rs).  record takes &self and     *)
(* holds no lock: the read of the OnceLock, the set of the gauge and the   *)
(* set of the OnceLock are three separate atomic operations.               *)
(***************************************************************************)
RecordRaceInit ==
    /\ rec_pc = [t \in Threads |-> "idle"]
    /\ rec_synced = [t \in Threads |-> FALSE]
    /\ rec_calls = 0

\* A thread enters record(synced)
RecordCall(t, synced) ==
    /\ rec_pc[t] = "idle"
    /\ rec_calls < MaxCalls
    /\ rec_pc' = [rec_pc EXCEPT ![t] = "check"]
    /\ rec_synced' = [rec_synced EXCEPT ![t] = synced]
    /\ rec_calls' = rec_calls + 1
    /\ UNCHANGED metricVars

\* if self.previously_synced.get().is_some() { return; }
RecordCheck(t) ==
    /\ rec_pc[t] = "check"
    /\ rec_pc' = [rec_pc EXCEPT ![t] =
                     IF previously_synced # None THEN "idle" ELSE "set"]
    /\ UNCHANGED <<rec_synced, rec_calls, metricVars>>

\* self.inner.set(Self::SYNCED) or self.inner.set(Self::NOT_SYNCED)
RecordSet(t) ==
    /\ rec_pc[t] = "set"
    /\ IntGauge_set(IF rec_synced[t] THEN SYNCED ELSE NOT_SYNCED)
    /\ rec_pc' = [rec_pc EXCEPT ![t] = IF rec_synced[t] THEN "latch" ELSE "idle"]
    /\ UNCHANGED <<rec_synced, rec_calls, previously_synced, metric_calls>>

\* let _ = self.previously_synced.set(()): fills the OnceLock if it is
\* empty; the Err of a full one is dropped
RecordLatch(t) ==
    /\ rec_pc[t] = "latch"
    /\ previously_synced' = IF previously_synced = None THEN Some("unit")
                            ELSE previously_synced
    /\ rec_pc' = [rec_pc EXCEPT ![t] = "idle"]
    /\ UNCHANGED <<rec_synced, rec_calls, metric_inner, metric_calls>>

RecordRaceNext ==
    \/ \E t \in Threads, synced \in BOOLEAN :
          RecordCall(t, synced) /\ UNCHANGED metricAndRaceFrame
    \/ \E t \in Threads : RecordCheck(t) /\ UNCHANGED metricAndRaceFrame
    \/ \E t \in Threads : RecordSet(t) /\ UNCHANGED metricAndRaceFrame
    \/ \E t \in Threads : RecordLatch(t) /\ UNCHANGED metricAndRaceFrame

(***************************************************************************)
(* LayoutCache over unbounded time.  Once the clock has reached its bound, *)
(* time passes by moving every stored Instant one unit into the past; an   *)
(* Instant that would fall below zero stays at zero.  The comparisons of   *)
(* get and sweep do not tell zero from an earlier Instant as long as the   *)
(* `now` of every call in flight is at least ttl, which is the guard.      *)
(***************************************************************************)
Earlier(instant) == IF instant > 0 THEN instant - 1 ELSE 0

EarlierLayout(layout) ==
    IF layout = None THEN None
    ELSE Some([layout[1] EXCEPT !.built = Earlier(@)])

Elapse ==
    /\ clock + ttl = MaxTime
    /\ \A t \in Threads : th[t].pc # "idle" => th[t].now > ttl
    /\ entries' = [d \in Deployments |->
                     IF entries[d] = None THEN None
                     ELSE Some(CacheEntry(EarlierLayout(Some(entries[d][1].value))[1],
                                          Earlier(entries[d][1].expires)))]
    /\ th' = [t \in Threads |->
                IF th[t].pc = "idle" THEN th[t]
                ELSE [th[t] EXCEPT !.now = Earlier(@), !.layout = EarlierLayout(@)]]
    /\ last_sweep' = Earlier(last_sweep)
    /\ UNCHANGED <<entriesLock, refreshLock, lastSweepLock, clock, ttl>>

\* The steps of thread t inside get
InGet(t) ==
    \/ GetRead(t)
    \/ GetTryLock(t)
    \/ \E res \in RefreshResults : GetRefresh(t, res)
    \/ \E ok \in BOOLEAN : GetLoad(t, ok)
    \/ CacheInsert(t)
    \/ GetUnlockRefresh(t)
    \/ SweepCheck(t)
    \/ SweepLockEntries(t)
    \/ SweepRetain(t)
    \/ SweepLockLast(t)
    \/ SweepSet(t)

CacheLiveNext ==
    \/ \E t \in Threads, d \in Deployments : Get(t, d) /\ UNCHANGED cacheFrame
    \/ \E t \in Threads : InGet(t) /\ UNCHANGED cacheFrame
    \/ Tick /\ UNCHANGED cacheFrame
    \/ Elapse /\ UNCHANGED cacheFrame

Init == StoreInit /\ CacheInit /\ RollupInit /\ CopyInit /\ IdentInit /\ FindManyInit /\ FindChangesInit /\ InsertChunksInit /\ QueryInit /\ MetricInit /\ LockInit /\ RefreshInit /\ MergeInit /\ UpdateStmtsInit /\ DeleteStmtsInit /\ PipelineInit /\ CacheOpsInit /\ RecordRaceInit

\* The layout operations, with the cache left as built with a ttl of TTL
InitTtl == Init /\ ttl = TTL

StoreSpec == InitTtl /\ [][StoreNext]_vars

CacheSpec == Init /\ [][CacheNext]_vars

\* The calls of rollup, with the cache left as built with a ttl of TTL
RollupSpec == InitTtl /\ [][RollupNext]_vars

\* The calls of can_copy_from, with the cache left as built with a ttl of TTL
CopySpec == InitTtl /\ [][CopyNext]_vars

TypeOK ==
    /\ nextVid \in 1..(MaxVid + 1)
    /\ head \in 0..MaxBlock
    /\ \A r \in rows :
         /\ r.tbl \in Tables /\ r.id \in Ids /\ r.vid < nextVid
         /\ r.lower \in 1..head
         /\ IsOpen(r) \/ (r.lower < r.upper[1] /\ r.upper[1] <= head)
         /\ immutable(r.tbl) => IsOpen(r)
    /\ \A c \in Blocks :
         IF c > head THEN snap[c] = None
         ELSE /\ snap[c] # None
              /\ \A r \in snap[c][1] : r.lower < c /\ (IsOpen(r) \/ r.upper[1] < c)

(***************************************************************************)
(* Properties of the versioning protocol                                   *)
(***************************************************************************)
MutableTables == {t \in Tables : ~immutable(t)}
QueryBlocks == 0..(MaxBlock + 1)
VersionsOf(rs, t, i) == {r \in rs : r.tbl = t /\ r.id = i}

C2_TemporalIsolation ==
    \A g \in GroupsWith(nextVid) :
        (~immutable(g.entity_type) /\ UpdateEnabled(g)) =>
            LET after == update(rows, g, nextVid).rows
            IN \A i \in clamp_ids(g) \cap write_ids(g) :
                (\E r \in VersionsOf(rows, g.entity_type, i) : IsOpen(r)) =>
                    /\ find(after, g.entity_type, i, g.block) = Some(g.val)
                    /\ \A c \in 0..(g.block - 1) :
                         find(after, g.entity_type, i, c) = find(rows, g.entity_type, i, c)

\* an entity whose version was closed at the block where its next version starts
C2_Witness ==
    \E t \in MutableTables, i \in Ids :
        \E r1, r2 \in VersionsOf(rows, t, i) :
            ~IsOpen(r1) /\ IsOpen(r2) /\ r1.upper[1] = r2.lower /\ r1.val # r2.val

\* C3: revert_block(b) restores exactly the rows the store had before the
\* first write at a block >= b
C3_RevertIsInverse ==
    [][\A b \in Blocks :
         RevertBlock(b) =>
            /\ rows' = Base(b)
            /\ \A t \in Tables, i \in Ids, c \in 0..(b - 1) :
                 find(rows', t, i, c) = find(Base(b), t, i, c)]_vars

\* a vid of the sequence is missing from the rows (a revert has removed it)
\* while an older version that had been closed is open again
C3_Witness ==
    /\ head < MaxBlock
    /\ \E v \in 1..(nextVid - 1) :
         /\ \A r \in rows : r.vid # v
         /\ \E r \in rows : r.vid < v /\ ~immutable(r.tbl) /\ IsOpen(r) /\ r.lower <= head

\* C4: after revert_block(b) no table holds a version with a lower bound >= b
C4_RevertRemovesLater ==
    [][\A b \in Blocks :
         RevertBlock(b) => \A r \in rows' : r.lower < b]_vars

\* rows of both kinds of table have been removed by a revert
C4_Witness ==
    /\ rows # {}
    /\ \A r \in rows : r.lower <= head
    /\ \E v \in 1..(nextVid - 1) : \A r \in rows : r.vid # v

\* C5: after revert_block(b) no version of a mutable table is closed at b,
\* find at b returns what find at b - 1 returned before the revert, and the
\* rows of immutable tables are only removed, never changed
C5_RevertReopens ==
    [][\A b \in Blocks :
         RevertBlock(b) =>
            /\ \A r \in rows' : ~immutable(r.tbl) => r.upper # Some(b)
            /\ \A t \in MutableTables, i \in Ids :
                 find(rows', t, i, b) = find(rows, t, i, b - 1)
            /\ \A t \in Tables \ MutableTables :
                 {r \in rows' : r.tbl = t} = {r \in rows : r.tbl = t /\ r.lower < b}]_vars

\* the only version of a mutable entity is open although a later version of
\* it had been written
C5_Witness ==
    \E t \in MutableTables, i \in Ids :
        /\ \E r \in rows : VersionsOf(rows, t, i) = {r} /\ IsOpen(r) /\ r.vid + 1 < nextVid
        /\ \E v \in 1..(nextVid - 1) : \A r \in rows : r.vid # v

\* The number of entities that have a current version
CurrentCount(rs) ==
    Cardinality({<<t, i>> \in Tables \X Ids :
                    \E r \in VersionsOf(rs, t, i) : IsOpen(r)})

\* C6: the value revert_block returns is the change of the number of
\* entities that have a current version
C6_RevertCount ==
    [][\A b \in Blocks :
         RevertBlock(b) =>
            revert_block(rows, b).count = CurrentCount(rows') - CurrentCount(rows)]_vars

DiffEvent(rs, t, i, c) ==
    LET before == FindRows(rs, t, i, c - 1)
        after == FindRows(rs, t, i, c)
        Event(op, r) == [entity_op |-> op, entity_type |-> t, id |-> i,
                         data |-> r.val, vid |-> r.vid, block |-> c]
    IN IF before = after THEN {}
       ELSE IF before = {} THEN {Event("Create", r) : r \in after}
       ELSE IF after = {} THEN {Event("Delete", r) : r \in before}
       ELSE {Event("Modify", r) : r \in after}

DiffEvents(rs, entity_types, c) ==
    UNION {DiffEvent(rs, t, i, c) : t \in entity_types, i \in Ids}

Range(f) == {f[n] : n \in DOMAIN f}

EventsAt(res, c) == IF c \in DOMAIN res THEN Range(res[c]) ELSE {}

\* C8: for every window [from, to) and all entity types, find_range holds for
\* every block of the window exactly the events that the difference of find
\* at the block before and at the block gives, and no other block
C8_FindRangeIsDiff ==
    \A from \in QueryBlocks, to \in QueryBlocks, types \in SUBSET Tables :
        from < to =>
        LET res == find_range(rows, types, from, to)
        IN /\ DOMAIN res \subseteq {c \in QueryBlocks : from <= c /\ c < to}
           /\ \A c \in from..(to - 1) :
                /\ EventsAt(res, c) = DiffEvents(rows, types, c)
                /\ c \in DOMAIN res => Len(res[c]) = Cardinality(DiffEvents(rows, types, c))

\* find_range over all blocks reports a Create, a Modify and a Delete
C8_Witness ==
    LET res == find_range(rows, Tables, 0, MaxBlock + 1)
        ops == UNION {EventsAt(res, c) : c \in QueryBlocks}
    IN {ev.entity_op : ev \in ops} = {"Create", "Modify", "Delete"}

(***************************************************************************)
(* Properties of the LayoutCache                                           *)
(***************************************************************************)
SweepPcs == {"s_check", "s_entries", "s_retain", "s_last", "s_set"}

\* The part of get that runs while the guard of the refresh lock is alive
UnderRefreshGuard(t) ==
    \/ th[t].pc \in {"g_refresh", "g_unlock"}
    \/ th[t].pc = "c_insert" /\ th[t].how # "loaded"

\* C9: at most one thread is refreshing a layout at any time, the refresh
\* lock is held only by a thread that is refreshing, and it is free once the
\* refreshing get is past its refresh, whether that succeeded or failed
C9_SingleRefresh ==
    /\ Cardinality({t \in Threads : UnderRefreshGuard(t)}) <= 1
    /\ \A t \in Threads : UnderRefreshGuard(t) <=> refreshLock = Some(t)

\* a refresh has failed and its get is about to return while the other
\* thread has taken the refresh lock and is refreshing
C9_Witness ==
    \E t, u \in Threads :
        /\ t # u
        /\ th[t].how = "refresh_failed" /\ th[t].pc \in SweepPcs
        /\ th[u].pc = "g_refresh" /\ refreshLock = Some(u)

\* A step of thread t
StepOf(t) == th'[t] # th[t]

C11_LoadAndHit ==
    [][\A t \in Threads :
         (ttl > 0 /\ StepOf(t)) =>
            LET d == th[t].site
                entry == entries[d]
            IN /\ (th[t].pc = "g_read" /\ entry = None) =>
                      /\ th'[t] = [th[t] EXCEPT !.pc = "g_load"]
                      /\ entries' = entries
               /\ (th[t].pc = "g_load" /\ th'[t] # Idle) =>
                      /\ th'[t] = [th[t] EXCEPT !.pc = "c_insert", !.how = "loaded",
                                                !.layout = Some(Layout(d, clock))]
                      /\ entries' = entries
               /\ (th[t].pc = "c_insert" /\ th[t].how = "loaded") =>
                      /\ entries' = [entries EXCEPT ![d] =
                                        Some(CacheEntry(th[t].layout[1], clock + ttl))]
                      /\ th'[t] = [th[t] EXCEPT !.pc = "s_check"]
               /\ (th[t].pc = "g_read" /\ entry # None /\ th[t].now <= entry[1].expires) =>
                      /\ th'[t] = [th[t] EXCEPT !.pc = "s_check", !.how = "unexpired",
                                                !.layout = Some(entry[1].value)]
                      /\ entries' = entries
               /\ th[t].how = "unexpired" =>
                      /\ th'[t] = Idle \/ (th'[t].pc \in SweepPcs /\ th'[t].layout = th[t].layout)
                      /\ entries'[d] = entries[d]]_vars

\* a get has loaded and cached a layout, time has passed, and a get of the
\* same deployment that found the entry unexpired is sweeping
C11_Witness ==
    \E t \in Threads :
        /\ ttl > 0
        /\ th[t].how = "unexpired" /\ th[t].pc = "s_retain"
        /\ entries[th[t].site] # None
        /\ th[t].now > entries[th[t].site][1].value.built

\* C12: when the refresh of get fails, get keeps the stale layout, caches it
\* again with an expiry of ttl after the time of caching, releases the
\* refresh lock and returns the stale layout through the sweep; a get that
\* reads an entry goes on to a refresh only if now > expires; when the load
\* for a deployment without entry fails, get ends at once and nothing is
\* cached
C12_RefreshFailure ==
    [][\A t \in Threads :
         (ttl > 0 /\ StepOf(t)) =>
            LET d == th[t].site
            IN /\ (th[t].pc = "g_refresh" /\ th'[t].how = "refresh_failed") =>
                      /\ th'[t] = [th[t] EXCEPT !.pc = "c_insert", !.how = "refresh_failed"]
                      /\ entries' = entries
               /\ (th[t].pc = "c_insert" /\ th[t].how = "refresh_failed") =>
                      /\ entries' = [entries EXCEPT ![d] =
                                        Some(CacheEntry(th[t].layout[1], clock + ttl))]
                      /\ th'[t] = [th[t] EXCEPT !.pc = "g_unlock"]
               /\ (th[t].pc = "g_unlock" /\ th[t].how = "refresh_failed") =>
                      /\ refreshLock = Some(t) /\ refreshLock' = None
                      /\ th'[t] = [th[t] EXCEPT !.pc = "s_check"]
               /\ (th[t].how = "refresh_failed" /\ th[t].pc \in SweepPcs) =>
                      /\ th[t].layout # None /\ th[t].layout[1].deployment = d
                      /\ th'[t] = Idle \/ (th'[t].pc \in SweepPcs /\ th'[t].layout = th[t].layout)
               /\ (th[t].pc = "g_read" /\ th'[t].pc = "g_try") =>
                      /\ entries[d] # None
                      /\ th[t].now > entries[d][1].expires
               /\ (th[t].pc = "g_load" /\ th'[t].pc # "c_insert") =>
                      /\ th'[t] = Idle
                      /\ entries' = entries /\ last_sweep' = last_sweep]_vars

\* the stale layout of a failed refresh is in the cache again with a later
\* expiry, and the get that refreshed is about to return it
C12_Witness ==
    \E t \in Threads :
        /\ ttl > 0
        /\ th[t].how = "refresh_failed" /\ th[t].pc = "s_check"
        /\ entries[th[t].site] = Some(CacheEntry(th[t].layout[1], clock + ttl))
        /\ th[t].layout[1].built < th[t].now

\* C13: with a ttl of zero the entry map stays empty and every get loads the
\* layout (no get is on the unexpired, stale or refresh path); with a
\* positive ttl every entry is stored under the deployment of its layout
C13_CacheOnlyWithTtl ==
    /\ ttl = 0 =>
          /\ \A d \in Deployments : entries[d] = None
          /\ \A t \in Threads :
                /\ th[t].pc \notin {"g_try", "g_refresh", "g_unlock"}
                /\ th[t].how \in {"none", "loaded"}
                /\ th[t].pc \in SweepPcs \cup {"c_insert"} => th[t].how = "loaded"
    /\ \A d \in Deployments :
          entries[d] # None => (ttl > 0 /\ entries[d][1].value.deployment = d)

\* with a ttl of zero a get has loaded a layout and is sweeping after an
\* earlier get has returned, and nothing is cached
C13_Witness ==
    \E t \in Threads :
        /\ ttl = 0
        /\ th[t].how = "loaded" /\ th[t].pc = "s_retain"
        /\ last_sweep > 0
        /\ \A d \in Deployments : entries[d] = None

\* C14: a sweep scans the entry map only when at least one sweep interval
\* has passed since the sweep recorded last, and the recorded instant of the
\* last sweep never moves backwards
C14_SweepOncePerInterval ==
    [][/\ \A t \in Threads :
            (th[t].pc = "s_retain" /\ StepOf(t)) =>
                th[t].now - last_sweep >= schema_cache_ttl
       /\ last_sweep' >= last_sweep]_vars

\* The entry of its own deployment that a get has loaded, refreshed or found
\* unexpired
OwnEntryFresh(t) == th[t].how \in {"loaded", "refreshed", "refresh_failed", "unexpired"}

C16_NoEntriesLockAcrossDb ==
    \A t \in Threads :
        /\ entriesLock = Some(t) => th[t].pc \in {"s_retain", "s_last", "s_set"}
        /\ th[t].pc \in {"g_load", "g_refresh"} => entriesLock # Some(t)

\* one thread is inside the refresh of a layout and the other is inside the
\* load of one while the entry map is not locked
C16_Witness ==
    \E t, u \in Threads :
        /\ th[t].pc = "g_refresh" /\ th[u].pc = "g_load"
        /\ entriesLock = None

(***************************************************************************)
(* Properties of rollup                                                    *)
(***************************************************************************)
RollupTypeOK ==
    /\ rpc \in {"idle", "rollup", "ok", "err"}
    /\ Len(rollups) <= MaxRollups /\ Len(block_times) <= MaxPairs
    /\ \A k \in 1..Len(rollups) : rollups[k] \in Intervals
    /\ \A k \in 1..Len(block_times) : block_times[k] \in RollupBlocks \X RollupTimes
    /\ \A k \in 1..Len(rollup_inserts) : rollup_inserts[k].bucket \in RollupTimes
    /\ last_rollup \in RollupTimes
    /\ ri \in 1..(MaxPairs + 1) /\ rj \in 1..(MaxRollups + 1)

\* A step of rollup that calls Rollup::insert
InsertStep == rollup_inserts' # rollup_inserts /\ rpc = "rollup"

\* C17: rollup takes the pairs in the order given and, for each pair, the
\* rollups in list order; an insert is for the first bucket of
\* buckets(last_rollup, block_time) and carries the block of the pair, no
\* rollup gets two inserts for one pair, after each pair last_rollup is the
\* block_time of the pair, and nothing is inserted for an empty block_times
C17_RollupOrder ==
    [][/\ InsertStep =>
            /\ rollup_inserts' = Append(rollup_inserts,
                    [rollup |-> rj,
                     bucket |-> buckets(rollups[rj], last_rollup, block_times[ri][2])[1],
                     block |-> block_times[ri][1]])
            /\ rj' = rj + 1 /\ ri' = ri /\ last_rollup' = last_rollup
            /\ \A k \in 1..Len(rollup_inserts) :
                  \/ rollup_inserts[k].block < block_times[ri][1]
                  \/ /\ rollup_inserts[k].block = block_times[ri][1]
                     /\ rollup_inserts[k].rollup < rj
       /\ (rpc = "rollup" /\ (ri' # ri \/ rpc' = "ok")) =>
            /\ last_rollup' = block_times[ri][2]
            /\ ri' = IF rpc' = "ok" THEN ri ELSE ri + 1
            /\ rpc' = "ok" <=> ri = Len(block_times)
            /\ rj' = 1
       /\ (rpc = "idle" /\ rpc' # "idle") =>
            /\ rollup_inserts' = <<>> /\ ri' = 1 /\ rj' = 1
            /\ block_times' = <<>> <=> rpc' = "ok"
            /\ rpc' = "rollup" =>
                  last_rollup' = IF last0' = None THEN MinBlockTime(block_times')
                                 ELSE last0'[1]]_vars

\* a call with two pairs has returned after inserts for both pairs, one of
\* them for a span that holds more than one bucket of the rollup
C17_Witness ==
    /\ rpc = "ok" /\ Len(block_times) = 2
    /\ \E m, n \in 1..Len(rollup_inserts) :
          /\ rollup_inserts[m].block = block_times[1][1]
          /\ rollup_inserts[n].block = block_times[2][1]
          /\ Len(buckets(rollups[rollup_inserts[n].rollup],
                          block_times[1][2], block_times[2][2])) > 1

\* A step of rollup that breaks out of the loop over the rollups
BreakStep == rpc = "rollup" /\ rj <= Len(rollups) /\ rj' > rj /\ rollup_inserts' = rollup_inserts

\* C18: the rollups of the layout are in increasing order of interval size,
\* and when the loop over the rollups stops at a rollup without a bucket in
\* the span of the pair, no rollup after it has a bucket in that span
C18_BreakSkipsNothing ==
    [][/\ \A i, j \in 1..Len(rollups) :
            i < j => as_duration(rollups[i]) <= as_duration(rollups[j])
       /\ BreakStep =>
            \A k \in (rj + 1)..Len(rollups) :
                buckets(rollups[k], last_rollup, block_times[ri][2]) = <<>>]_vars

\* the loop has stopped at the first of two rollups, of which the second
\* has the longer interval, for a pair whose time is later than last_rollup
C18_Witness ==
    /\ rpc = "rollup" /\ Len(rollups) = 2 /\ rj = 3
    /\ as_duration(rollups[1]) < as_duration(rollups[2])
    /\ last_rollup < block_times[ri][2]
    /\ \A k \in 1..Len(rollup_inserts) : rollup_inserts[k].block # block_times[ri][1]

\* The time from which a call that has returned started to roll up
Start0 == IF last0 = None THEN MinBlockTime(block_times) ELSE last0[1]

\* The time of the last entry of block_times
LastBlockTime == block_times[Len(block_times)][2]

\* The buckets of an interval whose end lies in Start0 < end <= LastBlockTime
SpanBuckets(interval) ==
    {b \in RollupTimes :
        /\ b % as_duration(interval) = 0
        /\ Start0 < b + as_duration(interval)
        /\ b + as_duration(interval) <= LastBlockTime}

\* Rollup::insert has been called for the bucket of the k-th rollup
Filled(k, b) ==
    \E n \in 1..Len(rollup_inserts) :
        rollup_inserts[n].rollup = k /\ rollup_inserts[n].bucket = b

\* The times at which the source can hold data the call has to roll up: the
\* time the call starts from and the block times of the call
TouchedTimes == {Start0} \cup {block_times[i][2] : i \in 1..Len(block_times)}

CompatibleWith(dcol, scol) ==
    /\ dcol.nullable \/ ~scol.nullable
    /\ IF dcol.column_type.kind = "Enum"
       THEN /\ scol.column_type.kind = "Enum"
            /\ scol.column_type.values \subseteq dcol.column_type.values
       ELSE /\ dcol.column_type = scol.column_type
            /\ dcol.list = scol.list

\* The rule with every source column of the same name as counterpart
CompatibleAsStated(dcol, source) ==
    LET same == SelectSeq(source, LAMBDA c : c.name = dcol.name)
    IN IF same # <<>> THEN CompatibleWith(dcol, same[1]) ELSE dcol.nullable

\* The rule with the full-text columns of the source left out
CompatibleSkippingFulltext(dcol, source) ==
    LET same == SelectSeq(source,
                    LAMBDA c : c.name = dcol.name /\ c.column_type.kind # "TSVector")
    IN IF same # <<>> THEN CompatibleWith(dcol, same[1]) ELSE dcol.nullable

\* C20 as stated: can_copy_from returns an empty list exactly when every
\* destination column is compatible with its same-named source column, or
\* is nullable when the source has no column of that name
C20_Original ==
    copy_result # None =>
        (copy_result[1] = <<>> <=>
            \A k \in 1..Len(copy_dst) : CompatibleAsStated(copy_dst[k], copy_src))

\* C20: can_copy_from returns one reason for each destination column that is
\* not compatible, in the order of the columns, and so an empty list exactly
\* when every destination column is compatible, where a full-text column of
\* the source does not count as the counterpart of a destination column
C20_CanCopyFrom ==
    copy_result # None =>
        LET bad == SelectSeq(copy_dst,
                       LAMBDA c : ~CompatibleSkippingFulltext(c, copy_src))
        IN /\ Len(copy_result[1]) = Len(bad)
           /\ \A n \in 1..Len(bad) : copy_result[1][n].column = bad[n].name
           /\ copy_result[1] = <<>> <=>
                 \A k \in 1..Len(copy_dst) :
                    CompatibleSkippingFulltext(copy_dst[k], copy_src)

\* two enum columns with the values A, B, C are copied from enum columns with
\* the values A, B and A, B, D: exactly one reason is returned
C20_Witness ==
    /\ copy_result # None /\ Len(copy_dst) = 2 /\ Len(copy_src) = 2
    /\ \A k \in 1..2 : /\ copy_dst[k].column_type.kind = "Enum"
                        /\ copy_dst[k].column_type.values = {"A", "B", "C"}
                        /\ copy_src[k].column_type.kind = "Enum"
    /\ copy_src[1].column_type.values = {"A", "B"}
    /\ copy_src[2].column_type.values = {"A", "B", "D"}
    /\ \A k \in 1..2 : copy_dst[k].nullable
    /\ Len(copy_result[1]) = 1
    /\ copy_result[1][1] = [column |-> "b", reason |-> "enum values"]

(***************************************************************************)
(* SqlName::check_valid_identifier: properties                             *)
(***************************************************************************)
\* The calls of check_valid_identifier
IdentSpec == InitTtl /\ [][IdentNext]_vars

\* [A-Za-z_][A-Za-z0-9_]*
MatchesIdentifier(name) ==
    /\ Len(name) >= 1
    /\ name[1] \in {"a", "Z", "_"}
    /\ \A i \in 2..Len(name) : name[i] \in {"a", "Z", "7", "_"}

IsInvalidIdentifier(r) == r[1] = "InvalidIdentifier"

FindManySpec == InitTtl /\ [][FindManyNext]_vars

\* Two of the loaded rows map to the same entity key
HasDuplicateKey(loaded) ==
    \E i, j \in 1..Len(loaded) : i # j /\ EntityKeyOf(loaded[i]) = EntityKeyOf(loaded[j])

\* C22: find_many fails with an integrity error, and returns no map, whenever
\* two of the loaded rows map to the same entity key; otherwise it returns a
\* map with exactly one entry per loaded row; and for an empty request it
\* returns an empty map without running the query
C22_FindManyDuplicates ==
    fm_result # None =>
        LET r == fm_result[1]
        IN  IF fm_ids_for_type[1] = EmptyMap
            THEN r = FindManyOk(EmptyMap) /\ fm_loaded = None
            ELSE LET loaded == fm_loaded[1]
                 IN  IF HasDuplicateKey(loaded)
                     THEN /\ ~r.ok
                          /\ r.error[1] = "duplicate entity"
                          /\ "entities" \notin DOMAIN r
                     ELSE /\ r.ok
                          /\ Cardinality(DOMAIN r.entities) = Len(loaded)
                          /\ \A i \in 1..Len(loaded) :
                                 /\ EntityKeyOf(loaded[i]) \in DOMAIN r.entities
                                 /\ r.entities[EntityKeyOf(loaded[i])] = loaded[i].data

\* The database answers with two versions of the same entity, and find_many
\* fails
C22_Witness ==
    /\ fm_result # None
    /\ fm_loaded # None
    /\ Len(fm_loaded[1]) = 2
    /\ HasDuplicateKey(fm_loaded[1])
    /\ fm_loaded[1][1].data # fm_loaded[1][2].data
    /\ ~fm_result[1].ok

(***************************************************************************)
(* Layout::find_changes: properties                                        *)
(***************************************************************************)
\* The calls of find_changes
FindChangesSpec == InitTtl /\ [][FindChangesNext]_vars

\* The versions of the entity tables that were opened, resp. closed at block
OpenedAt(db, block) ==
    {k \in 1..Len(db) : db[k].tbl # POI_TABLE /\ db[k].range[1] = block}

ClosedAt(db, block) ==
    {k \in 1..Len(db) : db[k].tbl # POI_TABLE /\ db[k].range[2] = Some(block)}

EntityOf(v) == <<v.tbl, v.id>>

EntityOfKey(key) == <<key[1], key[2]>>

\* C23: find_changes(block) reports a Set for every version opened at block
\* and a Remove for every entity that has a version closed at block and none
\* opened at block; no entity receives both a Set and a Remove, all Sets come
\* before all Removes, and the proof-of-indexing table never appears
C23_FindChanges ==
    fc_changes # None =>
        LET db == fc_db
            block == fc_block[1]
            changes == fc_changes[1]
            Sets == {i \in 1..Len(changes) : changes[i].op = "Set"}
            Removes == {i \in 1..Len(changes) : changes[i].op = "Remove"}
        IN  /\ \A k \in OpenedAt(db, block) : \E i \in Sets : changes[i].data = db[k]
            /\ \A i \in Sets : \E k \in OpenedAt(db, block) : changes[i].data = db[k]
            /\ Cardinality(Sets) = Cardinality(OpenedAt(db, block))
            /\ \A k \in ClosedAt(db, block) :
                   (\A o \in OpenedAt(db, block) : EntityOf(db[o]) # EntityOf(db[k]))
                       => \E i \in Removes :
                              changes[i].key
                                  = key_in(db[k].tbl, db[k].id, db[k].causality_region)
            /\ \A i \in Removes :
                   \E k \in ClosedAt(db, block) :
                       /\ EntityOfKey(changes[i].key) = EntityOf(db[k])
                       /\ \A o \in OpenedAt(db, block) : EntityOf(db[o]) # EntityOf(db[k])
            /\ \A i \in Sets, j \in Removes :
                   /\ EntityOfKey(changes[i].key) # EntityOfKey(changes[j].key)
                   /\ i < j
            /\ \A i \in 1..Len(changes) : changes[i].key[1] # POI_TABLE

\* An entity is updated at the block: one version is closed and one opened,
\* and the list is a single Set
C23_Witness ==
    /\ fc_changes # None
    /\ \E k \in ClosedAt(fc_db, fc_block[1]), o \in OpenedAt(fc_db, fc_block[1]) :
           EntityOf(fc_db[k]) = EntityOf(fc_db[o])
    /\ Len(fc_changes[1]) = 1
    /\ fc_changes[1][1].op = "Set"

(***************************************************************************)
(* Layout::insert, chunk by chunk: properties                              *)
(***************************************************************************)
\* The calls of insert, one chunk at a time
InsertChunksSpec == InitTtl /\ [][InsertChunksNext]_vars

\* The rows of the chunks before chunk k, in order
RECURSIVE ChunksBefore(_, _)
ChunksBefore(chunks, k) ==
    IF k <= 1 THEN <<>> ELSE ChunksBefore(chunks, k - 1) \o chunks[k - 1]

IsWriteFailure(r) == r # None /\ r[1].error = "WriteFailure"

\* C24: insert issues its chunks one after another, in order; when the
\* statement of chunk k fails, insert returns a write failure that carries
\* the table and the block of the chunk, the rows of the chunks before k are
\* written and stay written, and no chunk after k is attempted
C24_ChunksSequential ==
    /\ \A i, j \in 1..Len(ci_executed) : i < j => ci_executed[i] < ci_executed[j]
    /\ \A i \in 1..Len(ci_executed) : ci_executed[i] <= ci_k
    /\ ci_pc = "loop" => ci_written = ChunksBefore(ci_chunks, ci_k)
    /\ IsWriteFailure(ci_result) =>
           /\ ci_pc = "returned"
           /\ ci_executed # <<>>
           /\ LET k == ci_executed[Len(ci_executed)]
              IN  /\ k = ci_k
                  /\ ci_result[1].table = ci_table[1]
                  /\ ci_result[1].block = chunk_details(ci_chunks[k])
                  /\ ci_written = ChunksBefore(ci_chunks, k)
                  /\ \A i \in 1..Len(ci_executed) : ci_executed[i] <= k
    /\ (ci_pc = "returned" /\ ci_result = Some([error |-> "none"])) =>
           ci_written = ChunksBefore(ci_chunks, Len(ci_chunks) + 1)

\* The second of two chunks fails after the first was written
C24_Witness ==
    /\ IsWriteFailure(ci_result)
    /\ Len(ci_chunks) = 2
    /\ ci_executed = <<1, 2>>
    /\ ci_written = ci_chunks[1]
    /\ ci_written # <<>>

(***************************************************************************)
(* Layout::query: properties                                               *)
(***************************************************************************)
\* The calls of query
QuerySpec == InitTtl /\ [][QueryNext]_vars

\* The call failed in the database
FailedInDatabase == q_result # None /\ q_outcome[1].at = "transaction"

\* C25: when query fails in the database, a full-text syntax error becomes
\* FulltextQueryInvalidSyntax, and every other error becomes a resolution
\* failure that carries the text of the statement cut to at most MAXLEN
\* (20 KB)
C25_QueryErrors ==
    FailedInDatabase =>
        LET e == q_outcome[1].e
            r == q_result[1]
        IN  IF e.variant = "DatabaseError" /\ e.kind = "Unknown" /\ e.tsquery
            THEN r.error = "FulltextQueryInvalidSyntax"
            ELSE /\ r.error = "ResolveEntitiesError"
                 /\ r.query_len <= MAXLEN
                 /\ r.query_len = IF q_text_len[1] > MAXLEN THEN MAXLEN ELSE q_text_len[1]

\* What the code does: the resolution failure carries the whole text of the
\* statement, and only the text that is logged when the query succeeds is cut
C25_ErrorCarriesWholeText ==
    /\ FailedInDatabase =>
           LET e == q_outcome[1].e
               r == q_result[1]
           IN  IF e.variant = "DatabaseError" /\ e.kind = "Unknown" /\ e.tsquery
               THEN r.error = "FulltextQueryInvalidSyntax"
               ELSE /\ r.error = "ResolveEntitiesError"
                    /\ r.query_len = q_text_len[1]
                    /\ q_logged = None
    /\ q_logged # None => q_logged[1] <= MAXLEN + 4

\* A database error that is no full-text syntax error, for a statement
\* longer than MAXLEN
C25_Witness ==
    /\ FailedInDatabase
    /\ q_result[1].error = "ResolveEntitiesError"
    /\ q_text_len[1] > MAXLEN

(***************************************************************************)
(* DeploymentSyncedMetric: properties                                      *)
(***************************************************************************)
\* A series of calls of record on one metric
MetricSpec == InitTtl /\ [][MetricNext]_vars

\* C26: record ignores every value after the first true: after a call of
\* record the gauge is NOT_SYNCED if no call so far had the argument true,
\* and SYNCED if some call so far had, whatever the argument of the last call
C26_SyncedLatch ==
    metric_calls # <<>> =>
        IF \E i \in 1..Len(metric_calls) : metric_calls[i]
        THEN metric_inner = SYNCED
        ELSE metric_inner = NOT_SYNCED

\* record(false), record(true), record(false): the gauge stays SYNCED
C26_Witness ==
    /\ metric_calls = <<FALSE, TRUE, FALSE>>
    /\ metric_inner = SYNCED

(***************************************************************************)
(* The migration lock: properties                                          *)
(***************************************************************************)
\* Sessions that call lock_migration and then unlock_migration. A statement
\* that has been sent is evaluated, a waiting session gets lock 2 once it is
\* free, and a session that holds the migration lock calls unlock_migration
LockSpec ==
    /\ InitTtl
    /\ [][LockNext]_vars
    /\ \A s \in Sessions :
           /\ WF_vars(TryLockOne(s) /\ UNCHANGED lockFrame)
           /\ WF_vars(LockTwo(s) /\ UNCHANGED lockFrame)
           /\ WF_vars(UnlockOne(s) /\ UNCHANGED lockFrame)
           /\ WF_vars(UnlockTwo(s) /\ UNCHANGED lockFrame)

\* The sessions to which lock_migration has returned true
GotTrue == {s \in Sessions : lk_migrate[s] = Some(TRUE)}

MayMigrate(s) == lk_pc[s] \in {"lock_2", "locked"} /\ lk_try[s]

Holding(s) == lk_pc[s] = "locked"

\* C28: lock_migration blocks until the caller holds the migration lock: at
\* most one session is between the return of lock_migration and its call of
\* unlock_migration, a session that waits is never stuck for good (some step
\* is possible), and every session that waits eventually returns
C28_MigrationLock ==
    /\ [](Cardinality({s \in Sessions : Holding(s)}) <= 1)
    /\ []((\E s \in Sessions : lk_pc[s] = "lock_2") => ENABLED LockNext)
    /\ \A s \in Sessions : (lk_pc[s] = "lock_2") ~> Holding(s)

\* One session holds the migration lock while the two others wait for it
C28_Witness ==
    /\ Cardinality({s \in Sessions : Holding(s)}) = 1
    /\ Len(lock2_queue) = 2

(***************************************************************************)
(* Layout::refresh: properties                                             *)
(***************************************************************************)
\* Calls of refresh on the layouts that exist, old ones included
RefreshSpec == InitTtl /\ [][RefreshNext]_vars

\* No object that exists is changed by a step
PublishedUnchanged ==
    /\ Len(layout_heap') >= Len(layout_heap)
    /\ \A r \in 1..Len(layout_heap) : layout_heap'[r] = layout_heap[r]
    /\ Len(table_heap') >= Len(table_heap)
    /\ \A r \in 1..Len(table_heap) : table_heap'[r] = table_heap[r]

\* What the last call of refresh returned, against what it was given
RefreshResultOK ==
    (rf_result # None /\ rf_result[1].ok) =>
        LET old == layout_heap[rf_self[1]]
            new == layout_heap[rf_result[1].layout]
            answer == rf_answer[1]
            same == /\ \A o \in RefreshObjects :
                           table_heap[old.tables[o]].is_account_like
                               = (o \in answer.account_like)
                    /\ rf_site[1] = old.site
                    /\ answer.history_blocks = old.history_blocks
        IN  IF same
            THEN rf_result[1].layout = rf_self[1]
            ELSE /\ rf_result[1].layout # rf_self[1]
                 /\ new.site = rf_site[1]
                 /\ new.history_blocks = answer.history_blocks
                 /\ \A o \in RefreshObjects :
                        LET t_old == table_heap[old.tables[o]]
                            t_new == table_heap[new.tables[o]]
                        IN  /\ t_new.is_account_like = (o \in answer.account_like)
                            /\ t_new.object = t_old.object
                            /\ (t_old.is_account_like = (o \in answer.account_like))
                                   => new.tables[o] = old.tables[o]
                            /\ (t_old.is_account_like # (o \in answer.account_like))
                                   => new.tables[o] # old.tables[o]

\* C29: refresh never changes a Layout that exists: it returns the very
\* Layout it was given when no table's is_account_like flag, the site and
\* history_blocks changed; otherwise it returns a new Layout that differs
\* from the old one only in site, history_blocks and the flag of the changed
\* tables, shares every unchanged Table with the old one, and leaves the old
\* Layout and its Tables as they were
C29_RefreshShares ==
    /\ [][PublishedUnchanged]_vars
    /\ []RefreshResultOK

\* A refresh that changed the flag of one table: the new layout has a new
\* Table for it and shares the other
C29_Witness ==
    /\ rf_result # None
    /\ rf_result[1].ok
    /\ rf_result[1].layout # rf_self[1]
    /\ LET old == layout_heap[rf_self[1]]
           new == layout_heap[rf_result[1].layout]
       IN  /\ new.tables["A"] # old.tables["A"]
           /\ new.tables["B"] = old.tables["B"]
           /\ table_heap[old.tables["A"]].is_account_like
                  # table_heap[new.tables["A"]].is_account_like

(***************************************************************************)
(* The merge loop of find_range: properties                                *)
(***************************************************************************)
\* The runs of the merge loop
MergeSpec == InitTtl /\ [][MergeNext]_vars

\* The lower entries that have an upper entry with the same
\* (block_number, entity, id)
Matched ==
    {i \in 1..Len(mg_lower_vec) : \E j \in 1..Len(mg_upper_vec) : ede_equal(mg_lower_vec[i], mg_upper_vec[j])}

\* The positions of mg_out that report the entry e
OpsOf(e) == {n \in 1..Len(mg_out) : mg_out[n].data = e.data}

\* C30: for streams ordered by (block, entity type, entity id) the merge
\* ends after at most |lower| + |upper| turns and reports exactly one
\* operation per lower entry (Modify if an upper entry with the same block,
\* type and id exists, else Create, with the data of the lower entry), and
\* exactly one Delete per upper entry without a matching lower entry; matched
\* upper entries report nothing, so there are |lower| + |upper| - matches
\* operations
C30_MergeCounts ==
    /\ mg_steps <= Len(mg_lower_vec) + Len(mg_upper_vec)
    /\ mg_pc = "loop" =>
           (ENABLED (MergeExit \/ \E ok \in BOOLEAN : MergeStep(ok)))
    /\ mg_pc = "merged" =>
           /\ mg_out = merge(mg_lower_vec, mg_upper_vec, 1, 1, <<>>)
           /\ Len(mg_out) = mg_steps
           /\ \A i \in 1..Len(mg_lower_vec) :
                  /\ Cardinality(OpsOf(mg_lower_vec[i])) = 1
                  /\ \A n \in OpsOf(mg_lower_vec[i]) :
                         /\ mg_out[n].entity_op =
                                IF i \in Matched THEN "Modify" ELSE "Create"
                         /\ mg_out[n] = transform(mg_lower_vec[i], mg_out[n].entity_op)
           /\ \A j \in 1..Len(mg_upper_vec) :
                  IF \E i \in 1..Len(mg_lower_vec) : ede_equal(mg_lower_vec[i], mg_upper_vec[j])
                  THEN OpsOf(mg_upper_vec[j]) = {}
                  ELSE /\ Cardinality(OpsOf(mg_upper_vec[j])) = 1
                       /\ \A n \in OpsOf(mg_upper_vec[j]) :
                              mg_out[n] = transform(mg_upper_vec[j], "Delete")
           /\ Len(mg_out) = Len(mg_lower_vec) + Len(mg_upper_vec) - Cardinality(Matched)

\* Two lower and two upper entries of which one pair matches: three
\* operations, a Modify, a Create and a Delete
C30_Witness ==
    /\ mg_pc = "merged"
    /\ Len(mg_lower_vec) = 2
    /\ Len(mg_upper_vec) = 2
    /\ Cardinality(Matched) = 1
    /\ Len(mg_out) = 3
    /\ {mg_out[n].entity_op : n \in 1..3} = {"Modify", "Create", "Delete"}

(***************************************************************************)
(* find_range: the buckets of the result                                   *)
(***************************************************************************)
\* The row of the table an operation reports: a Delete reports the version
\* that ends at the block, a Create or Modify the version that starts there
RowOfOp(rs, op) ==
    {r \in rs : /\ r.tbl = op.entity_type
                /\ r.id = op.id
                /\ r.vid = op.vid
                /\ r.val = op.data
                /\ IF op.entity_op = "Delete"
                   THEN r.upper = Some(op.block)
                   ELSE r.lower = op.block}

\* C31: in the result of find_range, for every window over all the tables,
\* every operation of the bucket of block b comes from a row whose bound is
\* b, the operations of a bucket are ordered by vid (non-decreasing), and
\* every row of an immutable table that starts in the window is reported
\* once, as a Create, and never as a Modify or a Delete
C31_FindRangeBuckets ==
    \A from \in QueryBlocks, to \in QueryBlocks :
        from < to =>
        LET types == Tables
            res == find_range(rows, types, from, to)
        IN /\ \A b \in DOMAIN res :
                /\ \A n \in 1..Len(res[b]) :
                       /\ res[b][n].block = b
                       /\ RowOfOp(rows, res[b][n]) # {}
                       /\ immutable(res[b][n].entity_type)
                              => res[b][n].entity_op = "Create"
                /\ \A n \in 1..(Len(res[b]) - 1) : res[b][n].vid <= res[b][n + 1].vid
           /\ \A r \in rows :
                (immutable(r.tbl) /\ r.tbl \in types /\ from <= r.lower /\ r.lower < to)
                    => /\ r.lower \in DOMAIN res
                       /\ Cardinality({n \in 1..Len(res[r.lower]) :
                               /\ res[r.lower][n].vid = r.vid
                               /\ res[r.lower][n].entity_op = "Create"}) = 1

\* A bucket holds the Create of a row of the immutable table and an
\* operation of the mutable table, and the merge pushed them in another
\* order than that of their vids
C31_Witness ==
    LET res == find_range(rows, Tables, 0, MaxBlock + 1)
        raw == find_range_unsorted(rows, Tables, 0, MaxBlock + 1)
    IN \E b \in DOMAIN res :
          /\ res[b] # raw[b]
          /\ \E n \in 1..Len(res[b]) :
                 immutable(res[b][n].entity_type) /\ res[b][n].entity_op = "Create"
          /\ \E n \in 1..Len(res[b]) : ~immutable(res[b][n].entity_type)

(***************************************************************************)
(* Layout::update: the statements of one call                              *)
(***************************************************************************)
\* The calls of update
UpdateStmtsSpec == InitTtl /\ [][UpdateStmtsNext]_vars

\* The statements of a call that runs to its end: a clamp per block of
\* clamps_by_block, then an insert per chunk
AllUpdateStmts ==
    [n \in 1..Len(us_clamps) |-> ClampStmt(us_clamps[n])]
        \o [n \in 1..Len(us_chunks) |-> InsertStmt(us_chunks[n])]

IsPrefix(a, b) == Len(a) <= Len(b) /\ a = SubSeq(b, 1, Len(a))

RECURSIVE SumSeq(_)
SumSeq(sq) == IF sq = <<>> THEN 0 ELSE Head(sq) + SumSeq(Tail(sq))

UpdateFailed == us_result # None /\ us_result[1][1] = "Err"

\* C32 as stated: update fails exactly when the table is immutable and the
\* group contains clamps, then without a statement; otherwise it issues the
\* clamps of all blocks, then the inserts, and returns the rows inserted
C32_UpdateFailsOnlyOnImmutable ==
    us_pc = "returned" =>
        /\ UpdateFailed <=> (immutable(us_table[1]) /\ us_clamps # <<>>)
        /\ UpdateFailed => us_trace = <<>>
        /\ ~UpdateFailed =>
               /\ us_trace = AllUpdateStmts
               /\ us_result = Some(UpdateOk(SumSeq(us_chunks)))

\* C32, amended: a call on an immutable table with clamps fails before any
\* statement is issued; a call fails in no other way than that, a failed
\* lookup of the table or a failed statement; the statements are issued in
\* the order clamps (one per block that has clamps), then inserts, so every
\* clamp is issued before the first insert; a failed statement ends the call
\* and nothing is issued after it; a call that does not fail has issued all
\* of them and returns the total number of rows inserted
C32_UpdateStatements ==
    /\ IsPrefix(us_trace, AllUpdateStmts)
    /\ us_pc = "returned" =>
        /\ (immutable(us_table[1]) /\ us_clamps # <<>>) =>
               /\ us_result \in {Some(UpdateErr(ImmutableViolationErr)),
                                 Some(UpdateErr(UnknownTableErr))}
               /\ us_trace = <<>>
        /\ us_result = Some(UpdateErr(ImmutableViolationErr)) =>
               (immutable(us_table[1]) /\ us_clamps # <<>>)
        /\ us_result = Some(UpdateErr(UnknownTableErr)) => us_trace = <<>>
        /\ UpdateFailed =>
               \/ us_result[1][2] \in {ImmutableViolationErr, UnknownTableErr}
               \/ /\ us_trace # <<>>
                  /\ us_result[1][2] = us_trace[Len(us_trace)]
               \/ /\ Len(us_trace) < Len(AllUpdateStmts)
                  /\ us_result[1][2] = AllUpdateStmts[Len(us_trace) + 1]
        /\ ~UpdateFailed =>
               /\ us_trace = AllUpdateStmts
               /\ us_result = Some(UpdateOk(SumSeq(us_chunks)))

\* A call with clamps at two blocks and two chunks has run to its end
C32_Witness ==
    /\ us_pc = "returned"
    /\ ~UpdateFailed
    /\ Len(us_clamps) = 2
    /\ Len(us_chunks) = 2
    /\ Len(us_trace) = 4
    /\ us_result = Some(UpdateOk(SumSeq(us_chunks)))

(***************************************************************************)
(* Layout::delete: the statements of one call                              *)
(***************************************************************************)
\* The calls of delete
DeleteStmtsSpec == InitTtl /\ [][DeleteStmtsNext]_vars

\* The statements of the call for a block
StmtsOfBlock(block) == {n \in 1..Len(dl_trace) : dl_trace[n].stmt.block = block}

\* The ids of a block of n ids next to the ends of the chunks
BoundaryIds(n) ==
    {p \in 1..n : \/ p = n
                  \/ p % DELETE_OPERATION_CHUNK_SIZE \in {0, 1}}

RowsClamped == SumSeq([n \in 1..Len(dl_trace) |-> dl_trace[n].rows])

\* C33: a call with a group without clamps returns 0 and issues no
\* statement; a call on a mutable table that returns a count has, for every
\* block of the group, issued statements of at most
\* DELETE_OPERATION_CHUNK_SIZE ids each that follow one another without a
\* gap and without an overlap (the first starts at the first id, each next
\* one right after the one before, the last ends at the last id), so that
\* every id of the block is in exactly one statement, and the count is the
\* sum of the rows the statements clamped
C33_DeleteChunks ==
    /\ \A n \in 1..Len(dl_trace) :
           LET s == dl_trace[n].stmt
           IN /\ 1 <= s.first /\ s.first <= s.last
              /\ s.last - s.first + 1 <= DELETE_OPERATION_CHUNK_SIZE
              /\ \/ s.first = 1
                 \/ /\ n > 1
                    /\ dl_trace[n - 1].stmt.block = s.block
                    /\ dl_trace[n - 1].stmt.last + 1 = s.first
    /\ dl_pc = "returned" =>
        /\ dl_clamps = <<>> => (dl_result = Some(DeleteOk(0)) /\ dl_trace = <<>>)
        /\ (dl_clamps # <<>> /\ dl_result[1][1] = "Ok") =>
               /\ ~immutable(dl_table[1])
               /\ \A b \in 1..Len(dl_clamps) :
                      LET of_block == StmtsOfBlock(dl_clamps[b][1])
                      IN /\ \E n \in of_block : dl_trace[n].stmt.first = 1
                         /\ \E n \in of_block : dl_trace[n].stmt.last = dl_clamps[b][2]
                         /\ \A m, n \in of_block :
                                m < n => dl_trace[m].stmt.last < dl_trace[n].stmt.first
                         /\ \A p \in BoundaryIds(dl_clamps[b][2]) :
                                Cardinality({n \in of_block :
                                    /\ dl_trace[n].stmt.first <= p
                                    /\ p <= dl_trace[n].stmt.last}) = 1
               /\ \A n \in 1..Len(dl_trace) :
                      \E b \in 1..Len(dl_clamps) :
                          /\ dl_clamps[b][1] = dl_trace[n].stmt.block
                          /\ dl_trace[n].stmt.last <= dl_clamps[b][2]
               /\ dl_result = Some(DeleteOk(RowsClamped))

\* A block of 2,001 ids was clamped in three statements, the last for one id
C33_Witness ==
    /\ dl_pc = "returned"
    /\ dl_result # None
    /\ dl_result[1][1] = "Ok"
    /\ \E b \in 1..Len(dl_clamps) :
          /\ dl_clamps[b][2] = 2 * DELETE_OPERATION_CHUNK_SIZE + 1
          /\ Cardinality(StmtsOfBlock(dl_clamps[b][1])) = 3
    /\ dl_result[1][2] > 0
    /\ dl_result[1][2] < SumSeq([b \in 1..Len(dl_clamps) |-> dl_clamps[b][2]])

(***************************************************************************)
(* Pipeline::run: properties                                               *)
(***************************************************************************)
\* The runs of a pipeline; every call of the source and of a step comes
\* back, and a sleep ends
PipelineSpec ==
    InitTtl /\ [][PipelineNext]_vars /\ WF_vars(PipelineNext)

LastCall == pl_calls[Len(pl_calls)]

\* A call of the source or of a step is made in this step
PipeCalled == pl_calls' # pl_calls \/ pl_tick' # pl_tick

\* run returns only on a Halt, with the error of the Halt, and never Ok
ReturnsTheHalt ==
    /\ pl_result # None =>
           /\ pl_pc = "returned"
           /\ pl_calls # <<>>
           /\ LastCall.result[1] = "Halt"
           /\ pl_result = Some(<<"Err", LastCall.result[2]>>)
    /\ pl_pc = "returned" => pl_result # None
    /\ (pl_calls # <<>> /\ LastCall.result[1] = "Halt") => pl_pc = "returned"

\* After run has returned nothing is called any more
NoCallAfterHalt == pl_pc = "returned" => ~PipeCalled

\* C34: run never returns Ok: it has returned exactly when the last call
\* of the source or of a step gave Halt(error), and its value is then
\* Err(error); once it has returned neither the source nor a step is called
\* again; and while it has not returned the source is ticked again and again
C34_RunEndsOnlyOnHalt ==
    /\ []ReturnsTheHalt
    /\ [][NoCallAfterHalt]_vars
    /\ \A b \in {0, 1} :
           (pl_pc \in {"tick", "step", "sleep"} /\ pl_tick = b)
               ~> (pl_pc = "returned" \/ pl_tick # b)

\* The second step of a pipeline halts: run has returned its error
C34_Witness ==
    /\ pl_pc = "returned"
    /\ pl_steps = 2
    /\ Len(pl_calls) = 3
    /\ pl_calls[2].result[1] = "Next"
    /\ pl_calls[3].result = StepResult_Halt("e2")
    /\ pl_result = Some(<<"Err", "e2">>)

\* The call made in this step is the one the loop has to make next: the
\* first call is a tick; after a Next of the source or of a step that is not
\* the last one, the next step in vector order with the value of that Next;
\* after a Restart, and after the Next of the last step (or of the source of
\* a pipeline without steps), a tick
NextCallInOrder ==
    PipeCalled =>
        LET c == pl_calls'[Len(pl_calls')]
        IN IF pl_calls = <<>>
           THEN c.step = 0
           ELSE IF LastCall.result[1] = "Next" /\ LastCall.step < pl_steps
           THEN /\ c.step = LastCall.step + 1
                /\ c.input = LastCall.result[2]
                /\ pl_tick' = pl_tick
           ELSE /\ LastCall.result[1] \in {"Next", "Restart"}
                /\ c.step = 0
                /\ pl_tick' # pl_tick

\* The calls since the last tick: the tick, then the steps 1, 2, .. in
\* order, each fed the Next of the call before it; only the last of them
\* can have given something else than Next
CallsSinceTick ==
    \A k \in 1..Len(pl_calls) :
        /\ pl_calls[k].step = k - 1
        /\ k - 1 <= pl_steps
        /\ k > 1 => /\ pl_calls[k - 1].result[1] = "Next"
                    /\ pl_calls[k].input = pl_calls[k - 1].result[2]

\* A step is waiting to be called exactly when the calls so far all gave Next
\* and a step is left
StepPending ==
    (pl_pc = "step") <=>
        /\ pl_calls # <<>>
        /\ LastCall.result[1] = "Next"
        /\ LastCall.step < pl_steps

\* C35: after a tick that yields Next(x) the steps are called in vector
\* order, the first with x and each next one with the Next output of the one
\* before; a Restart of a step is followed by a tick, not by a later step;
\* a Restart of the source is followed by a tick, not by a step
C35_StepsInOrder ==
    /\ []CallsSinceTick
    /\ []StepPending
    /\ [][NextCallInOrder]_vars

\* The first of two steps has restarted the loop after a tick gave Next: the
\* second step is not called, the source is ticked next
C35_Witness ==
    /\ pl_steps = 2
    /\ Len(pl_calls) = 2
    /\ pl_calls[1].result[1] = "Next"
    /\ pl_calls[2].result[1] = "Restart"
    /\ pl_pc = "tick"

(***************************************************************************)
(* LayoutCache: the load of an absent deployment                           *)
(***************************************************************************)
\* The threads that are inside Self::load for deployment d
Loading(d) == {t \in Threads : th[t].pc = "g_load" /\ th[t].site = d}

\* C36 as stated: at most one load of a deployment is in flight at any time
C36_SingleFlightLoad == \A d \in Deployments : Cardinality(Loading(d)) <= 1

\* A get starts a load only from its lookup, and only if the lookup found no
\* entry for its deployment; a get that has loaded does not load again
LoadOnlyOnMiss ==
    \A t \in Threads :
        /\ (th'[t].pc = "g_load" /\ th[t].pc # "g_load") =>
               /\ th[t].pc = "g_read"
               /\ entries[th[t].site] = None
        /\ (th[t].pc = "g_load" /\ th'[t].pc # "g_load") =>
               \/ th'[t].pc = "idle"
               \/ th'[t].pc = "c_insert" /\ th'[t].how = "loaded"
        /\ (th[t].how = "loaded" /\ th'[t].pc # "idle") =>
               (th'[t].pc # "g_load" /\ th'[t].how = "loaded")

\* A load is made without any lock: neither the refresh lock nor the lock of
\* the entries is taken for it, so nothing keeps a second get from loading
LoadTakesNoLock ==
    \A t \in Threads :
        th[t].pc = "g_load" =>
            /\ refreshLock # Some(t)
            /\ entriesLock # Some(t)
            /\ lastSweepLock # Some(t)
            /\ ENABLED (\E ok \in BOOLEAN : GetLoad(t, ok))

\* C36, amended: every get loads at most once, and only after it found its
\* deployment absent; the load is not under the refresh lock or any other
\* lock, so single-flight covers the refresh of an expired entry only
C36_LoadPerGet ==
    /\ [][LoadOnlyOnMiss]_vars
    /\ []LoadTakesNoLock

\* Two gets are loading the same absent deployment at the same time
C36_Witness ==
    \E d \in Deployments :
        /\ Cardinality(Loading(d)) = 2
        /\ entries[d] = None
        /\ refreshLock = None

(***************************************************************************)
(* LayoutCache: get, find, remove and sweep together                       *)
(***************************************************************************)
\* Two threads in get, and callers of find and remove, on a cache built
\* with a ttl of TTL
CacheOpsSpec == InitTtl /\ [][CacheOpsNext]_vars

\* C37: after remove(d) has returned, and until a get(d) that started after
\* the removal has cached a layout, the cache has no entry for d and find(d)
\* returns None; a find makes no change to the cache and returns the value
\* of the entry whether or not it has expired
C37_RemoveSticks ==
    /\ \A d \in Deployments : ops_removed[d] # None => cache_find(d) = None
    /\ \A d \in Deployments :
           (entries[d] # None /\ entries[d][1].expires < clock) =>
               cache_find(d) = Some(entries[d][1].value)

\* The locks of the cache in the order sweep and cache take them: the
\* refresh lock is held around cache, which locks the entries; sweep locks
\* last_sweep while it holds the lock of the entries
LockRank(l) == CASE l = "refresh" -> 1 [] l = "entries" -> 2 [] l = "last_sweep" -> 3

\* The locks thread t holds
Holds(t) ==
    (IF refreshLock = Some(t) THEN {"refresh"} ELSE {})
        \cup (IF entriesLock = Some(t) THEN {"entries"} ELSE {})
        \cup (IF lastSweepLock = Some(t) THEN {"last_sweep"} ELSE {})

\* The lock the next step of thread t has to wait for, if it needs one
Wants(t) ==
    IF th[t].pc \in {"g_read", "s_entries"} THEN {"entries"}
    ELSE IF th[t].pc = "c_insert" /\ ttl > 0 /\ is_cacheable(th[t].layout[1])
    THEN {"entries"}
    ELSE IF th[t].pc \in {"s_check", "s_last"} THEN {"last_sweep"}
    ELSE {}

\* A step of thread t inside get
GetStep(t) ==
    \/ GetRead(t)
    \/ GetTryLock(t)
    \/ \E res \in RefreshResults : GetRefresh(t, res)
    \/ \E ok \in BOOLEAN : GetLoad(t, ok)
    \/ CacheInsert(t)
    \/ GetUnlockRefresh(t)
    \/ SweepCheck(t)
    \/ SweepLockEntries(t)
    \/ SweepRetain(t)
    \/ SweepLockLast(t)
    \/ SweepSet(t)

\* C38: the locks are taken in one order by all threads (a thread that
\* waits for a lock holds only locks of a lower rank), the step that tries
\* the refresh lock is never blocked, and in every state every thread
\* inside get can take its step or waits for a lock whose holder can take
\* its step; find and remove wait for the lock of the entries only, and its
\* holder can always take its step
C38_NoDeadlock ==
    /\ \A t \in Threads :
           /\ \A w \in Wants(t), h \in Holds(t) : LockRank(h) < LockRank(w)
           /\ th[t].pc = "g_try" => ENABLED GetTryLock(t)
           /\ th[t].pc # "idle" =>
                  \/ ENABLED GetStep(t)
                  \/ \E u \in Threads \ {t} :
                        /\ Wants(t) \subseteq Holds(u)
                        /\ Wants(t) # {}
                        /\ ENABLED GetStep(u)
    /\ \/ ENABLED Find(OpsDeployment) /\ ENABLED Remove(OpsDeployment)
       \/ \E u \in Threads : entriesLock = Some(u) /\ ENABLED GetStep(u)

\* A get that holds the refresh lock waits for the lock of the entries to
\* cache its layout while the sweep of the other get holds the entries and
\* last_sweep
C38_Witness ==
    \E t, u \in Threads :
        /\ t # u
        /\ th[t].pc = "c_insert" /\ refreshLock = Some(t)
        /\ th[u].pc = "s_set" /\ entriesLock = Some(u) /\ lastSweepLock = Some(u)
        /\ ~ENABLED GetStep(t)
        /\ ~ENABLED Remove(OpsDeployment)

(***************************************************************************)
(* C40                                                                     *)
(***************************************************************************)
RecordRaceSpec == InitTtl /\ [][RecordRaceNext]_vars

\* C40: under any interleaving of concurrent calls of record on one metric,
\* a gauge that reads SYNCED never reads NOT_SYNCED afterwards
C40_NeverReverts ==
    [][metric_inner = SYNCED => metric_inner' # NOT_SYNCED]_vars

\* A record(false) that has passed its check of previously_synced while a
\* record(true) has set the gauge
C40_RaceState ==
    \E t \in Threads :
        /\ rec_pc[t] = "set"
        /\ ~rec_synced[t]
        /\ metric_inner = SYNCED

(***************************************************************************)
(* C39                                                                     *)
(***************************************************************************)
\* Calls of get from two threads while time passes without bound; a thread
\* inside get takes its next step unless it waits for a lock: every load and
\* every refresh terminates
CacheLiveSpec ==
    /\ InitTtl
    /\ [][CacheLiveNext]_vars
    /\ \A t \in Threads : WF_vars(InGet(t) /\ UNCHANGED cacheFrame)

\* A get of d has found the entry of d expired and is about to try the
\* refresh lock
FindsExpired(d) == \E t \in Threads : th[t].pc = "g_try" /\ th[t].site = d

ExpiredEntry(d) == entries[d] # None /\ entries[d][1].expires < clock

\* A get of d has refreshed the entry of d: it holds the refresh lock and
\* has cached the result of the refresh with a new expiry
Refreshed(d) == \E t \in Threads : th[t].pc = "g_unlock" /\ th[t].site = d

\* C39: if the entry of d is expired and calls of get(d) keep finding it
\* expired, then eventually some get refreshes the entry of d, whatever the
\* gets for other deployments do with the refresh lock
C39_ExpiredEntryRefreshed ==
    \A d \in Deployments :
        ([]<>FindsExpired(d)) => (ExpiredEntry(d) ~> Refreshed(d))

====
